---- MODULE Spec2Model ----
(***************************************************************************)
(* A model of one call of the pester client (Client.pester): the caller,   *)
(* the retry lanes, the late-result listener, the completion watcher, the  *)
(* request context and the backoff timers.                                 *)
(***************************************************************************)
EXTENDS Integers, Sequences, FiniteSets, TLC

\* ---------------------------------------------------------------- bounds
\* the most lanes (Client.Concurrency) and attempts (Client.MaxRetries) of a
\* configuration, and the most transport calls one call may make in all
MaxConcurrency == 2
MaxRetriesBound == 4
MaxWork == 4
\* the largest argument a backoff function is called with by itself
MaxBackoffArg == 20
\* the largest argument of a jittered backoff function, whose every random
\* draw is explored
MaxJitterArg == 3

\* ------------------------------------------------------ program constants
StatusOK == 200
StatusBadRequest == 400
StatusTooManyRequests == 429
StatusInternalServerError == 500
\* time.Second, in the unit of the model's durations (milliseconds)
Second == 1000

Lanes == 0 .. (MaxConcurrency - 1)
Attempts == 1 .. MaxRetriesBound

KnownMethods == {"Do", "Get", "Head", "Post", "PostForm"}
\* the calls a program can make: the five public operations (Do with a GET
\* or a non-GET request) and params built with an unknown method name
\* bodies: what the call can carry as its original request body (none, one
\* that reads to its end, one whose read fails); Get and Head carry none,
\* Post wraps the caller's reader, PostForm wraps a string reader
Calls ==
    { [method |-> "Do", verb |-> "GET", bodies |-> {"none"}],
      [method |-> "Do", verb |-> "POST", bodies |-> {"none", "ok", "unreadable"}],
      [method |-> "Get", verb |-> "GET", bodies |-> {"none"}],
      [method |-> "Head", verb |-> "HEAD", bodies |-> {"none"}],
      [method |-> "Post", verb |-> "POST", bodies |-> {"ok", "unreadable"}],
      [method |-> "PostForm", verb |-> "POST", bodies |-> {"ok"}],
      [method |-> "Other", verb |-> "GET", bodies |-> {"none", "ok", "unreadable"}] }

\* the backoff functions a lane is run with
Strategies == {"DefaultBackoff", "ExponentialBackoff", "LinearBackoff"}
\* the backoff functions that draw a random number
JitterStrategies == {"ExponentialJitterBackoff", "LinearJitterBackoff"}

\* what one transport call (httpClient.Do) can return: an error and no
\* response, or a response with a status and a nil error
TransportErr == 0
Statuses == {StatusOK, StatusBadRequest, StatusTooManyRequests, StatusInternalServerError}
Outcomes == {TransportErr} \cup Statuses

NilResp == [lane |-> -1, attempt |-> 0, status |-> 0]
NoResult == [resp |-> NilResp, err |-> "none", req |-> 0, retry |-> 0]
NoReturn == [resp |-> NilResp, err |-> "none"]
\* the request of a lane that was not started
NoRequest == [kind |-> "none", lane |-> -1]
NoReader == [Body |-> "nil", GetBody |-> "nil"]

VARIABLES
    \* the call's parameters and the client's configuration
    method, verb, Concurrency, MaxRetries, KeepLog, RetryOnHTTP429,
    \* the backoff function, the hooks that are set, the request body given
    Backoff, LogHook, ContextLogHook, reqBody,
    \* p.url: "ok" when http.NewRequest takes it, "bad" when it returns an
    \* error for it
    url,
    \* the caller of pester()
    callerPc, ret, SuccessReqNum, SuccessRetryNum,
    \* the client's embedded http client (c.hc)
    hc,
    \* the request of each lane: which object it is, its Body and GetBody
    reqObj, reqReader,
    \* the lanes
    lanePc, attempt, laneRes, lastResp, timer, transportCalls, backoffArgs, logCalls,
    \* the durations the backoff function returned to each lane
    waits,
    \* the listener, the channels and the wait groups
    listenerPc, gotFirstResult, pending, finishCh, finishCloses, firstHanded, sends,
    allRequestsBackCh, totalSentRequests, wg,
    \* the request's context, the log and the response bodies
    cancelled, ErrLog, body,
    \* the original request body, and the calls made to the hooks
    bodySrc, hookCalls,
    \* the client's mutex (the set of its holders), the log as a lane read
    \* it for its append, and a caller of LogString or LogErrCount
    mu, logTmp, readerPc, readerSeen,
    \* a call of a backoff function by itself: function, argument, result
    bFn, bArg, bOut,
    \* history: the outcomes the transport has returned so far, and where
    \* each lane stood when the context was cancelled
    seen, cancelPoint,
    \* history: the transport calls each lane had begun when finishCh was
    \* closed
    callsAtSignal

cfgVars == <<method, verb, Concurrency, MaxRetries, KeepLog, RetryOnHTTP429, Backoff,
             LogHook, ContextLogHook, reqBody, url>>
callerVars == <<callerPc, ret, SuccessReqNum, SuccessRetryNum>>
laneVars == <<lanePc, attempt, laneRes, lastResp, timer, transportCalls, backoffArgs,
              logCalls, waits>>
listenerVars == <<listenerPc, gotFirstResult, pending, finishCh, finishCloses, firstHanded,
                  sends>>
groupVars == <<allRequestsBackCh, totalSentRequests, wg>>
histVars == <<seen, cancelPoint>>
muVars == <<mu, logTmp, readerPc, readerSeen>>
fnVars == <<bFn, bArg, bOut>>
reqVars == <<reqObj, reqReader>>
vars == <<cfgVars, callerVars, laneVars, listenerVars, groupVars, cancelled, ErrLog, body,
          bodySrc, hookCalls, muVars, fnVars, histVars, reqVars, hc, callsAtSignal>>

\* ------------------------------------------------------ pure definitions

\* a lane count that ignores the verb
LaneCountAnyVerb(v, c) == c

\* a lane count raised to one when Concurrency is below one
LaneCountAtLeastOne(v, c) == IF v # "GET" \/ c < 1 THEN 1 ELSE c

\* the lane count of a call
LaneCount(v, c) == IF v # "GET" THEN 1 ELSE c

\* an attempt loop that stops one iteration early
AttemptLimitShort(r) == IF r <= 1 THEN 1 ELSE r - 1

\* a limit that is raised to two attempts, not one, when MaxRetries <= 0
AttemptLimitTwo(r) == IF r <= 0 THEN 2 ELSE r

\* a loop that runs one iteration more than MaxRetries
AttemptLimitOneMore(r) == IF r <= 0 THEN 1 ELSE r + 1

\* the attempts a lane may make
AttemptLimitOf(r) == IF r <= 0 THEN 1 ELSE r
AttemptLimit == AttemptLimitOf(MaxRetries)

\* a check that takes only a status below 400 for a valid result
IsSuccessBelow400(err, status, retry429) ==
    /\ err = "nil"
    /\ status < 400

\* a check without the 429 clause
IsSuccessNo429(err, status, retry429) ==
    /\ err = "nil"
    /\ status < StatusInternalServerError

\* "Early return if we have a valid result": the attempt ends the lane
IsSuccess(err, status, retry429) ==
    /\ err = "nil"
    /\ status < StatusInternalServerError
    /\ (status # StatusTooManyRequests
          \/ (status = StatusTooManyRequests /\ ~retry429))

\* a record whose Attempt field holds the deprecated Retry number
EntryRetryAsAttempt(n, i, err) ==
    [Request |-> n, Retry |-> i + 1, Attempt |-> i + 1, Err |-> err]

\* the record Client.pester hands to Client.log for attempt i of lane n
Entry(n, i, err) == [Request |-> n, Retry |-> i + 1, Attempt |-> i, Err |-> err]

\* Client.log with KeepLog: append under the mutex; otherwise the record
\* goes to a hook or is dropped and the log is unchanged
LogAppend(log, keep, e) == IF keep THEN Append(log, e) ELSE log

\* a delivery that prefers LogHook to ContextLogHook
HookDeliverPlainFirst(calls, keep, ctxHook, hook, ctx, e) ==
    IF keep THEN calls
    ELSE IF hook THEN Append(calls, [hook |-> "LogHook", ctx |-> "none", e |-> e])
    ELSE IF ctxHook THEN Append(calls, [hook |-> "ContextLogHook", ctx |-> ctx, e |-> e])
    ELSE calls

\* Client.log without KeepLog: the record goes to ContextLogHook with the
\* context if that hook is set, else to LogHook if that one is set, else
\* nowhere; with KeepLog no hook is called
HookDeliver(calls, keep, ctxHook, hook, ctx, e) ==
    IF keep THEN calls
    ELSE IF ctxHook THEN Append(calls, [hook |-> "ContextLogHook", ctx |-> ctx, e |-> e])
    ELSE IF hook THEN Append(calls, [hook |-> "LogHook", ctx |-> "none", e |-> e])
    ELSE calls

\* req.Context() of a lane's request: the context of the caller's request
\* for Do, the background context of a request built by NewRequest
LoggingContext(m) == IF m = "Do" THEN "request" ELSE "background"

\* 1 << uint(i) for 0 <= i
RECURSIVE Pow2(_)
Pow2(i) == IF i <= 0 THEN 1 ELSE 2 * Pow2(i - 1)

\* a default that grows with the attempt number
DefaultBackoffGrowing(i) == i * Second

\* DefaultBackoff always returns 1 second
DefaultBackoff(i) == 1 * Second

\* a backoff of 2^(i-1) seconds
ExponentialBackoffFromOne(i) == Pow2(i - 1) * Second

\* ExponentialBackoff: time.Duration(1<<uint(i)) * time.Second
ExponentialBackoff(i) == Pow2(i) * Second

\* LinearBackoff: time.Duration(i) * time.Second
LinearBackoff(i) == i * Second

\* random.Intn(2*maxJitter) in jitter(i): the numbers it can return, none
\* when its argument is not positive (Intn panics)
Draws(i) == 0 .. (2 * ((i * 1000) \div 3) - 1)

\* a jitter of half the value on either side
jitterHalf(i, r) ==
    LET ms == i * 1000
        maxJitter == ms \div 2
        jittered == ms + r - maxJitter
    IN  IF jittered <= 0 THEN 1 ELSE jittered

\* jitter(i) when random.Intn returns r: i seconds in milliseconds, moved by
\* r - maxJitter, and 1 when that is not positive
jitter(i, r) ==
    LET ms == i * 1000
        maxJitter == ms \div 3
        jittered == ms + r - maxJitter
    IN  IF jittered <= 0 THEN 1 ELSE jittered

\* ExponentialJitterBackoff: jitter(int(1 << uint(i)))
ExponentialJitterBackoff(i, r) == jitter(Pow2(i), r)

\* LinearJitterBackoff: jitter(i)
LinearJitterBackoff(i, r) == jitter(i, r)

\* the argument a jittered backoff function hands to jitter
JitterArg(b, i) == IF b = "ExponentialJitterBackoff" THEN Pow2(i) ELSE i

\* a call of a jittered backoff function in which random.Intn returns r
JitterCall(b, i, r) ==
    CASE b = "ExponentialJitterBackoff" -> ExponentialJitterBackoff(i, r)
      [] b = "LinearJitterBackoff" -> LinearJitterBackoff(i, r)

\* a call of the backoff function with the deprecated Retry number, i + 1
BackoffCallNext(b, i) ==
    CASE b = "DefaultBackoff" -> DefaultBackoff(i + 1)
      [] b = "ExponentialBackoff" -> ExponentialBackoff(i + 1)
      [] b = "LinearBackoff" -> LinearBackoff(i + 1)

\* c.Backoff(i): the client's backoff function called with the number of
\* the attempt that failed
BackoffCall(b, i) ==
    CASE b = "DefaultBackoff" -> DefaultBackoff(i)
      [] b = "ExponentialBackoff" -> ExponentialBackoff(i)
      [] b = "LinearBackoff" -> LinearBackoff(i)

\* FormatError(e): the line of a record, of which the model keeps the two
\* numbers printed as request-%d and retry-%d (e.Request and e.Retry)
FormatError(e) == [request |-> e.Request, retry |-> e.Retry]

\* LogString: the lines of the records of the log, in the log's order
LogString(log) == [k \in 1 .. Len(log) |-> FormatError(log[k])]

\* LogErrCount: len(c.ErrLog)
LogErrCount(log) == Len(log)

\* DefaultClient, and the client New() builds from it: the fields New()
\* does not set have their zero values
DefaultClient == [Concurrency |-> 1, MaxRetries |-> 3, Backoff |-> "DefaultBackoff"]
New ==
    [Concurrency |-> DefaultClient.Concurrency, MaxRetries |-> DefaultClient.MaxRetries,
     Backoff |-> DefaultClient.Backoff, RetryOnHTTP429 |-> FALSE, KeepLog |-> FALSE,
     LogHook |-> FALSE, ContextLogHook |-> FALSE]

\* the client of the call has the settings of New()
FromNew ==
    /\ Concurrency = New.Concurrency
    /\ MaxRetries = New.MaxRetries
    /\ Backoff = New.Backoff
    /\ RetryOnHTTP429 = New.RetryOnHTTP429
    /\ KeepLog = New.KeepLog
    /\ LogHook = New.LogHook
    /\ ContextLogHook = New.ContextLogHook

\* the settings explored beside the defaults (DefaultBackoff, no hook):
\* another backoff function or hooks, on single-lane Get and Do calls and
\* on calls whose body cannot be read
PlainSettings == Backoff = "DefaultBackoff" /\ ~LogHook /\ ~ContextLogHook
VariedSettings ==
    \/ /\ method \in {"Get", "Do"}
       /\ verb = "GET"
       /\ Concurrency = 1
       /\ (Backoff = "DefaultBackoff" \/ (~LogHook /\ ~ContextLogHook /\ ~KeepLog))
    \/ /\ reqBody = "unreadable"
       /\ Backoff = "DefaultBackoff"

\* a Do call with several lanes, the one kind of call that both fans out and
\* can be cancelled, is explored with RetryOnHTTP429 off; the retry of a 429
\* is explored on its single-lane calls and on the lanes of Get
FanOutSettings == (method = "Do" /\ LaneCount(verb, Concurrency) > 1) => ~RetryOnHTTP429

\* a call with a URL that http.NewRequest rejects is one of Get, Head, Post
\* or PostForm (Do is given a request already built); it makes no attempt,
\* so it is explored with one setting of what only attempts read
BuildSettings ==
    url = "bad" =>
        /\ method \in {"Get", "Head", "Post", "PostForm"}
        /\ PlainSettings
        /\ ~KeepLog
        /\ ~RetryOnHTTP429

\* a Wait() that does not block
WaitAtOnce == TRUE

\* Client.Wait(): c.wg.Wait() returns when the counter of c.wg is zero
Wait == wg = 0

\* the lanes the call started
Started == {l \in Lanes : lanePc[l] # "unused"}

\* ----------------------------------------------------------------- Init
\* a client, and a call on it that has not begun
CallInit ==
    /\ \E c \in Calls : method = c.method /\ verb = c.verb /\ reqBody \in c.bodies
    /\ Concurrency \in 0 .. MaxConcurrency
    /\ MaxRetries \in -1 .. MaxRetriesBound
    /\ LaneCount(verb, Concurrency) * AttemptLimitOf(MaxRetries) <= MaxWork
    /\ KeepLog \in BOOLEAN
    /\ RetryOnHTTP429 \in BOOLEAN
    /\ Backoff \in Strategies
    /\ LogHook \in BOOLEAN
    /\ ContextLogHook \in BOOLEAN
    /\ PlainSettings \/ VariedSettings
    /\ FanOutSettings
    /\ url \in {"ok", "bad"}
    /\ BuildSettings
    /\ callerPc = "idle"
    /\ ret = NoReturn
    /\ SuccessReqNum = 0
    /\ SuccessRetryNum = 0
    /\ lanePc = [l \in Lanes |-> "unused"]
    /\ attempt = [l \in Lanes |-> 0]
    /\ laneRes = [l \in Lanes |-> NoResult]
    /\ lastResp = [l \in Lanes |-> NilResp]
    /\ timer = [l \in Lanes |-> "none"]
    /\ transportCalls = [l \in Lanes |-> 0]
    /\ backoffArgs = [l \in Lanes |-> <<>>]
    /\ logCalls = [l \in Lanes |-> 0]
    /\ listenerPc = "off"
    /\ gotFirstResult = FALSE
    /\ pending = NoResult
    /\ finishCh = "open"
    /\ finishCloses = 0
    /\ firstHanded = [lane |-> -1, res |-> NoResult]
    /\ sends = [l \in Lanes |-> 0]
    /\ allRequestsBackCh = "open"
    /\ totalSentRequests = 0
    /\ wg = 0
    /\ cancelled = FALSE
    /\ ErrLog = <<>>
    /\ body = [l \in Lanes |-> [i \in Attempts |-> "none"]]
    /\ waits = [l \in Lanes |-> <<>>]
    /\ bodySrc = IF reqBody = "none" THEN "none" ELSE "unread"
    /\ hookCalls = <<>>
    /\ mu = {}
    /\ logTmp = [l \in Lanes |-> <<>>]
    /\ readerPc = "idle"
    /\ readerSeen = <<>>
    /\ seen = {}
    /\ cancelPoint = [l \in Lanes |-> "none"]
    /\ hc = "nil"
    /\ reqObj = [l \in Lanes |-> NoRequest]
    /\ reqReader = [l \in Lanes |-> NoReader]
    /\ callsAtSignal = [l \in Lanes |-> 0]

Init ==
    /\ CallInit
    /\ bFn = "none"
    /\ bArg = 0
    /\ bOut = 0

\* -------------------------------------------------------------- actions

\* a copy that drops the read error
CopyBodyNoErr(rb) == "nil"

\* the error of Client.copyBody: ioutil.ReadAll fails on an unreadable body
CopyBodyErr(rb) == IF rb = "unreadable" THEN "ErrReadingRequestBody" ELSE "nil"

\* the original body after Client.copyBody: read to its end and closed, or
\* left as it is, not closed, when the read failed
CopyBody(rb) ==
    CASE rb = "none" -> "none"
      [] rb = "ok" -> "closed"
      [] rb = "unreadable" -> "failed"

\* a limit that is written back to the field
MaxRetriesWrittenBack(r) == AttemptLimitOf(r)

\* c.MaxRetries after `AttemptLimit := c.MaxRetries; if AttemptLimit <= 0
\* { AttemptLimit = 1 }`: the limit is a local variable, the field is read
MaxRetriesRead(r) == r

\* c.Concurrency after `concurrency := c.Concurrency; if p.verb != "GET"
\* { concurrency = 1 }`: a local variable too
ConcurrencyRead(v, c) == c

\* a call that goes on whatever its method
MethodCheckSkipped(m) == "nil"

\* the switch on p.method after the copy of the body: the five methods go
\* on, any other returns ErrUnexpectedMethod
MethodCheck(m) == IF m \in KnownMethods THEN "nil" ELSE "ErrUnexpectedMethod"

\* the error of provideRequest: the one http.NewRequest returns for the
\* URL, in the cases of the switch that call it
NewRequestErr(m, u) ==
    IF m \in {"Get", "Head", "Post", "PostForm"} /\ u = "bad" THEN "NewRequestErr" ELSE "nil"

\* a provideRequest that hands every lane the caller's request
ProvideRequestShared(m, conc, l) == [kind |-> "original", lane |-> -1]

\* provideRequest, the request object: for Do the caller's request when
\* concurrency is 1 and a clone of it for each lane otherwise; for the
\* other methods a request built by http.NewRequest for each lane
ProvideRequest(m, conc, l) ==
    IF m = "Do"
    THEN IF conc > 1 THEN [kind |-> "clone", lane |-> l]
         ELSE [kind |-> "original", lane |-> -1]
    ELSE [kind |-> "new", lane |-> l]

\* resetBody: request.Body is a new reader over originalBody and GetBody
\* returns such readers
ResetBody == [Body |-> "fresh", GetBody |-> "snapshot"]

\* provideRequest, the Body and GetBody of the request: Do resets a body
\* that is not nil (the original one was read by copyBody); Get and Head
\* build a request without a body; Post and PostForm build one over
\* bytes.NewBuffer(originalBody), for which NewRequest sets GetBody too
ProvideReader(m, rb) ==
    CASE m = "Do" -> IF rb # "none" THEN ResetBody
                     ELSE [Body |-> "nil", GetBody |-> "nil"]
      [] m \in {"Get", "Head"} -> [Body |-> "nil", GetBody |-> "nil"]
      [] m \in {"Post", "PostForm"} -> [Body |-> "fresh", GetBody |-> "snapshot"]
      \* no case of the switch: the request stays nil
      [] OTHER -> [Body |-> "nil", GetBody |-> "nil"]

\* a retry that leaves the request body as the transport left it
ResetSkipped(rd) == rd

\* `if req.Body != nil { resetBody(req, originalBody) }` before a retry
ResetForRetry(rd) == IF rd.Body # "nil" THEN ResetBody ELSE rd

\* httpClient.Do(req) reads the request body and closes it
Consume(rd) ==
    IF rd.Body = "nil" THEN rd
    ELSE [rd EXCEPT !.Body = IF @ = "fresh" THEN "consumed" ELSE "reread"]

\* Client.pester up to `res := <-resultCh`: the wait group of the call, the
\* copy of the request body, the method check, the lanes (each with its
\* request from provideRequest) and the listener are started; a body that
\* cannot be read or an unknown method returns at once. A lane whose
\* provideRequest fails is at its send of result{err: err, req: n}, its loop
\* not entered
CallStart ==
    /\ callerPc = "idle"
    /\ bodySrc' = CopyBody(reqBody)
    /\ IF CopyBodyErr(reqBody) # "nil"
       THEN /\ callerPc' = "done"
            /\ ret' = [resp |-> NilResp, err |-> CopyBodyErr(reqBody)]
            \* totalSentRequests.Add(1) and the deferred Done()
            /\ totalSentRequests' = 0
            /\ UNCHANGED <<lanePc, attempt, laneRes, wg, listenerPc, reqVars>>
       ELSE IF MethodCheck(method) # "nil"
       THEN /\ callerPc' = "done"
            /\ ret' = [resp |-> NilResp, err |-> MethodCheck(method)]
            /\ totalSentRequests' = 0
            /\ UNCHANGED <<lanePc, attempt, laneRes, wg, listenerPc, reqVars>>
       ELSE /\ callerPc' = "waiting"
            /\ lanePc' = [l \in Lanes |->
                            IF l >= LaneCount(verb, Concurrency) THEN "unused"
                            ELSE IF NewRequestErr(method, url) # "nil" THEN "send"
                            ELSE "top"]
            /\ attempt' = [l \in Lanes |->
                            IF l < LaneCount(verb, Concurrency)
                               /\ NewRequestErr(method, url) = "nil"
                            THEN 1 ELSE 0]
            /\ laneRes' = [l \in Lanes |->
                            IF l < LaneCount(verb, Concurrency)
                               /\ NewRequestErr(method, url) # "nil"
                            THEN [resp |-> NilResp, err |-> NewRequestErr(method, url),
                                  req |-> l, retry |-> 0]
                            ELSE laneRes[l]]
            /\ wg' = wg + Cardinality({l \in Lanes : l < LaneCount(verb, Concurrency)})
            /\ totalSentRequests' =
                   1 + Cardinality({l \in Lanes : l < LaneCount(verb, Concurrency)})
            /\ listenerPc' = "recv"
            /\ reqObj' = [l \in Lanes |->
                            IF l < LaneCount(verb, Concurrency)
                               /\ NewRequestErr(method, url) = "nil"
                            THEN ProvideRequest(method, LaneCount(verb, Concurrency), l)
                            ELSE NoRequest]
            /\ reqReader' = [l \in Lanes |->
                            IF l < LaneCount(verb, Concurrency)
                               /\ NewRequestErr(method, url) = "nil"
                            THEN ProvideReader(method, reqBody) ELSE NoReader]
            /\ UNCHANGED ret
    \* `if c.hc == nil { c.hc = &http.Client{} ... }` under the mutex
    /\ hc' = "set"
    /\ Concurrency' = ConcurrencyRead(verb, Concurrency)
    /\ MaxRetries' = MaxRetriesRead(MaxRetries)
    /\ UNCHANGED <<method, verb, KeepLog, RetryOnHTTP429, Backoff, LogHook, ContextLogHook,
                   reqBody, url, callsAtSignal, muVars, fnVars,
                   SuccessReqNum, SuccessRetryNum, lastResp, timer,
                   transportCalls, backoffArgs, logCalls, waits, gotFirstResult, pending,
                   finishCh, finishCloses, firstHanded, sends, allRequestsBackCh, cancelled,
                   ErrLog, body, hookCalls, histVars>>

\* a loop head that would also stop on a cancelled context
StopAtTopOrCancelled(fin, ctxDone) == fin = "closed" \/ ctxDone

\* a loop head that never stops
StopAtTopNever(fin, ctxDone) == FALSE

\* the select at the head of the loop: its one case is <-finishCh, its
\* default goes on; the request's context is not looked at
StopAtTop(fin, ctxDone) == fin = "closed"

\* the top of a lane's attempt loop: c.wg.Add(1), the finishCh check, and
\* the start of the transport call; a lane that finds finishCh closed returns
\* (its deferred Done() calls run)
LaneTop(l) ==
    /\ lanePc[l] = "top"
    /\ IF StopAtTop(finishCh, cancelled)
       THEN /\ lanePc' = [lanePc EXCEPT ![l] = "done"]
            \* one Add(1) at the start of the lane and one for each iteration
            \* begun before this one are undone, and this iteration's is too
            /\ wg' = wg - attempt[l]
            /\ totalSentRequests' = totalSentRequests - 1
            /\ lastResp' = [lastResp EXCEPT ![l] = NilResp]
            /\ UNCHANGED <<transportCalls, reqReader>>
       ELSE /\ lanePc' = [lanePc EXCEPT ![l] = "do"]
            /\ wg' = wg + 1
            /\ transportCalls' = [transportCalls EXCEPT ![l] = @ + 1]
            /\ reqReader' = [reqReader EXCEPT ![l] = Consume(@)]
            /\ UNCHANGED <<totalSentRequests, lastResp>>
    /\ UNCHANGED <<cfgVars, reqObj, hc, callsAtSignal, muVars, fnVars,
                   callerVars, attempt, laneRes, timer, backoffArgs, logCalls,
                   waits, listenerVars, allRequestsBackCh, cancelled, ErrLog, body,
                   bodySrc, hookCalls, histVars>>

\* resp.Body.Close() by the lane before it retries
CloseBody(b, r) ==
    IF r = NilResp THEN b
    ELSE [b EXCEPT ![r.lane][r.attempt] = IF @ = "open" THEN "closed" ELSE "reclosed"]

\* a listener that drops a late result without touching its body
DrainSkipped(b, r) == b

\* io.Copy(ioutil.Discard, res.resp.Body) and res.resp.Body.Close() by the
\* listener: an open body is read to its end and closed, a body the lane
\* had closed cannot be read any more and is closed a second time
DrainAndClose(b, r) ==
    IF r = NilResp THEN b
    ELSE [b EXCEPT ![r.lane][r.attempt] = IF @ = "open" THEN "drained" ELSE "reclosed"]

\* the context check placed before the last-iteration check
AfterFailureCtxFirst(i, limit, ctxDone) ==
    IF ctxDone THEN "cancelled"
    ELSE IF i = limit THEN "exhausted"
    ELSE "backoff"

\* no context check after a failure
AfterFailureNoCtx(i, limit, ctxDone) ==
    IF i = limit THEN "exhausted" ELSE "backoff"

\* what a lane does after it has logged the failure of attempt i
AfterFailure(i, limit, ctxDone) ==
    IF i = limit THEN "exhausted"
    ELSE IF ctxDone THEN "cancelled"
    ELSE "backoff"

\* lane l after Client.log has returned for its failed attempt (response
\* resp, error err, the bodies being got): the last attempt's result is
\* sent as it is; else the context's error is sent if the context is done;
\* else the body is closed, the backoff function called and the timer set
AfterLog(l, resp, err, got) ==
    LET i    == attempt[l]
        then == AfterFailure(i, AttemptLimit, cancelled)
    IN
    IF then = "backoff"
    THEN /\ lanePc' = [lanePc EXCEPT ![l] = "select"]
         /\ body' = CloseBody(got, resp)
         /\ backoffArgs' = [backoffArgs EXCEPT ![l] = Append(@, i)]
         /\ waits' = [waits EXCEPT ![l] = Append(@, BackoffCall(Backoff, i))]
         /\ timer' = [timer EXCEPT ![l] = "armed"]
         /\ UNCHANGED laneRes
    ELSE /\ lanePc' = [lanePc EXCEPT ![l] = "send"]
         /\ laneRes' = [laneRes EXCEPT ![l] =
               [resp |-> resp,
                err |-> IF then = "exhausted" THEN err ELSE "Canceled",
                req |-> 0, retry |-> 0]]
         /\ body' = got
         /\ UNCHANGED <<timer, backoffArgs, waits>>

\* httpClient.Do(req) returns outcome o to lane l, and the lane runs on to
\* its next blocking point: a success is sent; a failure is logged and then
\* sent if it was the last attempt or the context is done; otherwise the
\* body is closed and the backoff timer is started
TransportReturn(l, o) ==
    LET i    == attempt[l]
        resp == IF o = TransportErr THEN NilResp
                ELSE [lane |-> l, attempt |-> i, status |-> o]
        err  == IF o = TransportErr THEN "transportErr" ELSE "nil"
        got  == IF o = TransportErr THEN body ELSE [body EXCEPT ![l][i] = "open"]
    IN
    /\ lanePc[l] = "do"
    /\ lastResp' = [lastResp EXCEPT ![l] = resp]
    /\ seen' = seen \cup {o}
    /\ IF IsSuccess(err, o, RetryOnHTTP429)
       THEN /\ lanePc' = [lanePc EXCEPT ![l] = "send"]
            /\ laneRes' = [laneRes EXCEPT ![l] =
                              [resp |-> resp, err |-> err, req |-> l, retry |-> i]]
            /\ body' = got
            /\ UNCHANGED <<ErrLog, hookCalls, logCalls, timer, backoffArgs, waits>>
       ELSE /\ ErrLog' = LogAppend(ErrLog, KeepLog, Entry(l, i, err))
            /\ hookCalls' = HookDeliver(hookCalls, KeepLog, ContextLogHook, LogHook,
                                        LoggingContext(method), Entry(l, i, err))
            /\ logCalls' = [logCalls EXCEPT ![l] = @ + 1]
            /\ AfterLog(l, resp, err, got)
    /\ UNCHANGED <<cfgVars, reqVars, hc, callsAtSignal, muVars, fnVars,
                   callerVars, attempt, transportCalls, listenerVars, groupVars,
                   cancelled, bodySrc, cancelPoint>>

\* the result a lane sends when its context is done during the wait
CancelResult(l) == [resp |-> lastResp[l], err |-> "Canceled", req |-> 0, retry |-> 0]

\* the lane reaches the select on the timer and the context: a case that is
\* ready is taken (either one when both are), otherwise the lane blocks
LaneSelect(l) ==
    /\ lanePc[l] = "select"
    /\ \/ /\ timer[l] = "fired"
          /\ lanePc' = [lanePc EXCEPT ![l] = "top"]
          /\ attempt' = [attempt EXCEPT ![l] = @ + 1]
          /\ timer' = [timer EXCEPT ![l] = "none"]
          /\ reqReader' = [reqReader EXCEPT ![l] = ResetForRetry(@)]
          /\ UNCHANGED laneRes
       \/ /\ cancelled
          /\ lanePc' = [lanePc EXCEPT ![l] = "send"]
          /\ laneRes' = [laneRes EXCEPT ![l] = CancelResult(l)]
          /\ timer' = [timer EXCEPT ![l] = "none"]
          /\ UNCHANGED <<attempt, reqReader>>
       \/ /\ timer[l] = "armed" /\ ~cancelled
          /\ lanePc' = [lanePc EXCEPT ![l] = "blocked"]
          /\ UNCHANGED <<attempt, laneRes, timer, reqReader>>
    /\ UNCHANGED <<cfgVars, reqObj, hc, callsAtSignal, muVars, fnVars,
                   callerVars, lastResp, transportCalls, backoffArgs, logCalls,
                   waits, listenerVars, groupVars, cancelled, ErrLog, body, bodySrc,
                   hookCalls, histVars>>

\* the backoff timer of lane l expires: a lane blocked in the select takes
\* the timer case, resets the request body and goes to its next iteration
TimerFire(l) ==
    /\ timer[l] = "armed"
    /\ IF lanePc[l] = "blocked"
       THEN /\ lanePc' = [lanePc EXCEPT ![l] = "top"]
            /\ attempt' = [attempt EXCEPT ![l] = @ + 1]
            /\ timer' = [timer EXCEPT ![l] = "none"]
            /\ reqReader' = [reqReader EXCEPT ![l] = ResetForRetry(@)]
       ELSE /\ timer' = [timer EXCEPT ![l] = "fired"]
            /\ UNCHANGED <<lanePc, attempt, reqReader>>
    /\ UNCHANGED <<cfgVars, reqObj, hc, callsAtSignal, muVars, fnVars,
                   callerVars, laneRes, lastResp, transportCalls, backoffArgs,
                   logCalls, waits, listenerVars, groupVars, cancelled, ErrLog, body,
                   bodySrc, hookCalls, histVars>>

\* where a lane stands: not started yet, before the end of its first
\* transport call, blocked in its backoff wait, or elsewhere
PointOf(pc, i) ==
    IF pc = "blocked" THEN "wait"
    ELSE IF pc = "unused" THEN "unstarted"
    ELSE IF pc \in {"top", "go", "do"} /\ i <= 1 THEN "first"
    ELSE "other"

\* a wait on the timer alone
WokenByTimerOnly(pc) == FALSE

\* the select of the backoff wait has a case for the context's Done
\* channel: a lane blocked there is woken by the cancellation
WokenByCancel(pc) == pc = "blocked"

\* the request's context is cancelled (only Do takes a request with a
\* context of the caller's): every lane blocked in the select takes the
\* Done case
Cancel ==
    /\ method = "Do"
    /\ ~cancelled
    /\ cancelled' = TRUE
    /\ lanePc' = [l \in Lanes |-> IF WokenByCancel(lanePc[l]) THEN "send" ELSE lanePc[l]]
    /\ laneRes' = [l \in Lanes |->
                      IF WokenByCancel(lanePc[l]) THEN CancelResult(l) ELSE laneRes[l]]
    /\ timer' = [l \in Lanes |-> IF WokenByCancel(lanePc[l]) THEN "none" ELSE timer[l]]
    /\ cancelPoint' = [l \in Lanes |-> PointOf(lanePc[l], attempt[l])]
    /\ UNCHANGED <<cfgVars, reqVars, hc, callsAtSignal, muVars, fnVars,
                   callerVars, attempt, lastResp, transportCalls, backoffArgs,
                   logCalls, waits, listenerVars, groupVars, ErrLog, body, bodySrc,
                   hookCalls, seen>>

\* a backoff wait that the close of finishCh ends
WokenBySignalInWait(pc) == pc = "blocked"

\* the select of the backoff wait has the timer and the context's Done
\* channel for its cases and none for finishCh: the close of finishCh wakes
\* no lane
WokenBySignal(pc) == FALSE

\* a listener that takes every result for the first
IsFirstResultAlways(got) == TRUE

\* a listener that takes no result for the first
IsFirstResultNever(got) == FALSE

\* `if !gotFirstResult` of the listener
IsFirstResult(got) == ~got

\* `multiplexCh <- result` of lane l meets `res := <-multiplexCh` of the
\* listener; the lane returns. The first result closes finishCh and is kept
\* for the caller, a later one has its body drained and closed
ListenerRecv(l) ==
    /\ lanePc[l] = "send"
    /\ listenerPc = "recv"
    /\ lanePc' = [k \in Lanes |->
                     IF k = l THEN "done"
                     ELSE IF IsFirstResult(gotFirstResult) /\ WokenBySignal(lanePc[k])
                          THEN "top"
                          ELSE lanePc[k]]
    /\ wg' = wg - (1 + attempt[l])
    /\ totalSentRequests' = totalSentRequests - 1
    /\ sends' = [sends EXCEPT ![l] = @ + 1]
    /\ firstHanded' = IF \A k \in Lanes : sends[k] = 0
                      THEN [lane |-> l, res |-> laneRes[l]]
                      ELSE firstHanded
    /\ laneRes' = [laneRes EXCEPT ![l] = NoResult]
    /\ lastResp' = [lastResp EXCEPT ![l] = NilResp]
    /\ IF IsFirstResult(gotFirstResult)
       THEN /\ gotFirstResult' = TRUE
            /\ finishCh' = "closed"
            /\ finishCloses' = finishCloses + 1
            /\ pending' = laneRes[l]
            /\ listenerPc' = "deliver"
            /\ callsAtSignal' = transportCalls
            /\ UNCHANGED body
       ELSE /\ body' = DrainAndClose(body, laneRes[l].resp)
            /\ UNCHANGED <<gotFirstResult, finishCh, finishCloses, pending, listenerPc,
                           callsAtSignal>>
    /\ UNCHANGED <<cfgVars, reqVars, hc, muVars, fnVars,
                   callerVars, attempt, timer, transportCalls, backoffArgs,
                   logCalls, waits, allRequestsBackCh, cancelled, ErrLog, bodySrc,
                   hookCalls, histVars>>

\* a return that drops the error of the result
ReturnedNoErr(res) == [resp |-> res.resp, err |-> "nil"]

\* `return res.resp, res.err`
Returned(res) == [resp |-> res.resp, err |-> res.err]

\* `resultCh <- res` of the listener meets `res := <-resultCh` of the
\* caller, which records the winner and returns (its deferred
\* totalSentRequests.Done() runs)
CallReturn ==
    /\ listenerPc = "deliver"
    /\ callerPc = "waiting"
    /\ listenerPc' = "recv"
    /\ callerPc' = "done"
    /\ ret' = Returned(pending)
    /\ SuccessReqNum' = pending.req
    /\ SuccessRetryNum' = pending.retry
    /\ totalSentRequests' = totalSentRequests - 1
    /\ pending' = NoResult
    /\ UNCHANGED <<cfgVars, reqVars, hc, callsAtSignal, muVars, fnVars,
                   laneVars, gotFirstResult, finishCh, finishCloses, firstHanded,
                   sends, allRequestsBackCh, wg, cancelled, ErrLog, body, bodySrc,
                   hookCalls, histVars>>

\* a Wait() that returns while one task is outstanding
AllBackButOne(n) == n <= 1

\* totalSentRequests.Wait() returns when the counter is zero
AllBack(n) == n = 0

\* the watcher goroutine: totalSentRequests.Wait() returns and
\* allRequestsBackCh is closed
WatcherClose ==
    /\ callerPc # "idle"
    /\ AllBack(totalSentRequests)
    /\ allRequestsBackCh = "open"
    /\ allRequestsBackCh' = "closed"
    /\ UNCHANGED <<cfgVars, reqVars, hc, callsAtSignal, muVars, fnVars,
                   callerVars, laneVars, listenerVars, totalSentRequests, wg,
                   cancelled, ErrLog, body, bodySrc, hookCalls, histVars>>

\* the listener takes the allRequestsBackCh case and returns
ListenerExit ==
    /\ listenerPc = "recv"
    /\ allRequestsBackCh = "closed"
    /\ listenerPc' = "exited"
    /\ UNCHANGED <<cfgVars, reqVars, hc, callsAtSignal, muVars, fnVars,
                   callerVars, laneVars, gotFirstResult, pending, finishCh,
                   finishCloses, firstHanded, sends, groupVars, cancelled, ErrLog, body,
                   bodySrc, hookCalls, histVars>>

Next ==
    \/ CallStart
    \/ \E l \in Lanes : LaneTop(l)
    \/ \E l \in Lanes : \E o \in Outcomes : TransportReturn(l, o)
    \/ \E l \in Lanes : LaneSelect(l)
    \/ \E l \in Lanes : TimerFire(l)
    \/ Cancel
    \/ \E l \in Lanes : ListenerRecv(l)
    \/ CallReturn
    \/ WatcherClose
    \/ ListenerExit

Spec == Init /\ [][Next]_vars

\* ------------------------------------------ the tasks under fair scheduling
\* GET calls by Get and Do, and Post, with the plain settings; every task
\* that can take a step takes it in the end, every transport call returns
\* and every timer expires; the context need never be cancelled
LiveInit ==
    /\ Init
    /\ method \in {"Get", "Do", "Post"}
    /\ verb = "GET" \/ method = "Post"
    /\ PlainSettings
    /\ ~KeepLog
    /\ ~RetryOnHTTP429

Fairness ==
    /\ WF_vars(CallStart)
    /\ \A l \in Lanes : /\ WF_vars(LaneTop(l))
                         /\ WF_vars(\E o \in Outcomes : TransportReturn(l, o))
                         /\ WF_vars(LaneSelect(l))
                         /\ WF_vars(TimerFire(l))
                         /\ WF_vars(ListenerRecv(l))
    /\ WF_vars(CallReturn)
    /\ WF_vars(WatcherClose)
    /\ WF_vars(ListenerExit)

LiveSpec == LiveInit /\ [][Next]_vars /\ Fairness

\* ------------------------------------------- the log under the client mutex
\* The append of Client.log and the readers of the log in steps of their
\* own: Lock(), the read and the write of c.ErrLog, Unlock().

\* a Lock() that does not wait for the holder
MuFreeAlways(m) == TRUE

\* c.Lock() returns when no one holds the mutex
MuFree(m) == m = {}

LaneHolder(l) == [kind |-> "lane", id |-> l]
ReaderHolder == [kind |-> "reader", id |-> 0]

\* Client.pester initialises c.hc under the mutex before it starts the call
LockedCallStart == MuFree(mu) /\ CallStart

\* the caller records the winner under the mutex
LockedCallReturn == MuFree(mu) /\ CallReturn

\* a transport call whose outcome is not appended to the log: a success,
\* or any outcome without KeepLog
TransportReturnUnlogged(l, o) ==
    /\ ~KeepLog \/ (o # TransportErr /\ IsSuccess("nil", o, RetryOnHTTP429))
    /\ TransportReturn(l, o)

\* a transport call fails with KeepLog set: the lane goes to Client.log
LaneFails(l, o) ==
    LET i    == attempt[l]
        resp == IF o = TransportErr THEN NilResp
                ELSE [lane |-> l, attempt |-> i, status |-> o]
        err  == IF o = TransportErr THEN "transportErr" ELSE "nil"
    IN
    /\ lanePc[l] = "do"
    /\ KeepLog
    /\ ~IsSuccess(err, o, RetryOnHTTP429)
    /\ lanePc' = [lanePc EXCEPT ![l] = "log"]
    /\ lastResp' = [lastResp EXCEPT ![l] = resp]
    /\ seen' = seen \cup {o}
    /\ body' = IF o = TransportErr THEN body ELSE [body EXCEPT ![l][i] = "open"]
    /\ UNCHANGED <<cfgVars, reqVars, hc, callsAtSignal, muVars, fnVars,
                   callerVars, attempt, laneRes, timer,
                   transportCalls, backoffArgs, logCalls, waits, listenerVars, groupVars,
                   cancelled, ErrLog, bodySrc, hookCalls, cancelPoint>>

\* Client.log: c.Lock(), and the read of c.ErrLog for the append
LogLock(l) ==
    /\ lanePc[l] = "log"
    /\ MuFree(mu)
    /\ mu' = mu \cup {LaneHolder(l)}
    /\ logTmp' = [logTmp EXCEPT ![l] = ErrLog]
    /\ lanePc' = [lanePc EXCEPT ![l] = "locked"]
    /\ UNCHANGED <<cfgVars, reqVars, hc, callsAtSignal,
                   readerPc, readerSeen, fnVars, callerVars, attempt, laneRes,
                   lastResp, timer, transportCalls, backoffArgs, logCalls, waits,
                   listenerVars, groupVars, cancelled, ErrLog, body, bodySrc, hookCalls,
                   histVars>>

\* Client.log: c.ErrLog = append(c.ErrLog, e) and the deferred c.Unlock();
\* the lane runs on to its next blocking point
LogAppendUnlock(l) ==
    LET resp == lastResp[l]
        err  == IF resp = NilResp THEN "transportErr" ELSE "nil"
    IN
    /\ lanePc[l] = "locked"
    /\ ErrLog' = Append(logTmp[l], Entry(l, attempt[l], err))
    /\ logTmp' = [logTmp EXCEPT ![l] = <<>>]
    /\ mu' = mu \ {LaneHolder(l)}
    /\ logCalls' = [logCalls EXCEPT ![l] = @ + 1]
    /\ AfterLog(l, resp, err, body)
    /\ UNCHANGED <<cfgVars, reqVars, hc, callsAtSignal,
                   readerPc, readerSeen, fnVars, callerVars, attempt, lastResp,
                   transportCalls, listenerVars, groupVars, cancelled, bodySrc, hookCalls,
                   histVars>>

\* LogString or LogErrCount: c.Lock()
ReadLock ==
    /\ readerPc = "idle"
    /\ MuFree(mu)
    /\ mu' = mu \cup {ReaderHolder}
    /\ readerPc' = "reading"
    /\ UNCHANGED <<cfgVars, reqVars, hc, callsAtSignal,
                   logTmp, readerSeen, fnVars, callerVars, laneVars, listenerVars,
                   groupVars, cancelled, ErrLog, body, bodySrc, hookCalls, histVars>>

\* LogString or LogErrCount: the log is read to its end (LogErrCount
\* returns its length) and the deferred c.Unlock() runs
ReadUnlock ==
    /\ readerPc = "reading"
    /\ readerSeen' = LogString(ErrLog)
    /\ mu' = mu \ {ReaderHolder}
    /\ readerPc' = "idle"
    /\ UNCHANGED <<cfgVars, reqVars, hc, callsAtSignal,
                   logTmp, fnVars, callerVars, laneVars, listenerVars, groupVars,
                   cancelled, ErrLog, body, bodySrc, hookCalls, histVars>>

\* Get calls, and Do calls with one lane, whose context can be cancelled,
\* with KeepLog on a client whose log is read at any time
LogInit ==
    /\ Init
    /\ method = "Get" \/ (method = "Do" /\ verb = "GET" /\ Concurrency = 1)
    /\ Concurrency >= 1
    /\ KeepLog
    /\ PlainSettings

LogNext ==
    \/ LockedCallStart
    \/ \E l \in Lanes : LaneTop(l)
    \/ \E l \in Lanes : \E o \in Outcomes : TransportReturnUnlogged(l, o)
    \/ \E l \in Lanes : \E o \in Outcomes : LaneFails(l, o)
    \/ \E l \in Lanes : LogLock(l)
    \/ \E l \in Lanes : LogAppendUnlock(l)
    \/ \E l \in Lanes : LaneSelect(l)
    \/ \E l \in Lanes : TimerFire(l)
    \/ \E l \in Lanes : ListenerRecv(l)
    \/ LockedCallReturn
    \/ WatcherClose
    \/ ListenerExit
    \/ Cancel
    \/ ReadLock
    \/ ReadUnlock

LogSpec == LogInit /\ [][LogNext]_vars

\* ------------------------------------------- the lane's iteration in steps
\* The head of the loop, the start of the transport call, the append to the
\* log and what follows it, each in a step of its own.

\* the head of the loop: c.wg.Add(1) and the select on finishCh; a lane that
\* finds it closed returns, another goes on to httpClient.Do
LaneCheck(l) ==
    /\ lanePc[l] = "top"
    /\ IF StopAtTop(finishCh, cancelled)
       THEN /\ lanePc' = [lanePc EXCEPT ![l] = "done"]
            /\ wg' = wg - attempt[l]
            /\ totalSentRequests' = totalSentRequests - 1
            /\ lastResp' = [lastResp EXCEPT ![l] = NilResp]
       ELSE /\ lanePc' = [lanePc EXCEPT ![l] = "go"]
            /\ wg' = wg + 1
            /\ UNCHANGED <<totalSentRequests, lastResp>>
    /\ UNCHANGED <<cfgVars, reqVars, hc, callsAtSignal, muVars, fnVars,
                   callerVars, attempt, laneRes, timer, transportCalls, backoffArgs,
                   logCalls, waits, listenerVars, allRequestsBackCh, cancelled, ErrLog,
                   body, bodySrc, hookCalls, histVars>>

\* httpClient.Do(req) is called: the transport has the request and reads
\* its body
LaneStart(l) ==
    /\ lanePc[l] = "go"
    /\ lanePc' = [lanePc EXCEPT ![l] = "do"]
    /\ transportCalls' = [transportCalls EXCEPT ![l] = @ + 1]
    /\ reqReader' = [reqReader EXCEPT ![l] = Consume(@)]
    /\ UNCHANGED <<cfgVars, reqObj, hc, callsAtSignal, muVars, fnVars,
                   callerVars, attempt, laneRes, lastResp, timer, backoffArgs, logCalls,
                   waits, listenerVars, groupVars, cancelled, ErrLog, body, bodySrc,
                   hookCalls, histVars>>

\* Client.log: c.ErrLog = append(c.ErrLog, e) and the deferred c.Unlock()
LogWrite(l) ==
    LET err == IF lastResp[l] = NilResp THEN "transportErr" ELSE "nil"
    IN
    /\ lanePc[l] = "locked"
    /\ ErrLog' = Append(logTmp[l], Entry(l, attempt[l], err))
    /\ logTmp' = [logTmp EXCEPT ![l] = <<>>]
    /\ mu' = mu \ {LaneHolder(l)}
    /\ logCalls' = [logCalls EXCEPT ![l] = @ + 1]
    /\ lanePc' = [lanePc EXCEPT ![l] = "logged"]
    /\ UNCHANGED <<cfgVars, reqVars, hc, callsAtSignal, readerPc, readerSeen, fnVars,
                   callerVars, attempt, laneRes, lastResp, timer, transportCalls,
                   backoffArgs, waits, listenerVars, groupVars, cancelled, body, bodySrc,
                   hookCalls, histVars>>

\* what follows Client.log: the last attempt's result or the context's
\* error is sent, or the failed body is closed and the wait begins
LaneAfterLog(l) ==
    LET resp == lastResp[l]
        err  == IF resp = NilResp THEN "transportErr" ELSE "nil"
    IN
    /\ lanePc[l] = "logged"
    /\ AfterLog(l, resp, err, body)
    /\ UNCHANGED <<cfgVars, reqVars, hc, callsAtSignal, muVars, fnVars,
                   callerVars, attempt, lastResp, transportCalls, logCalls,
                   listenerVars, groupVars, cancelled, ErrLog, bodySrc, hookCalls,
                   histVars>>

\* Get and Post calls with KeepLog
StepInit ==
    /\ Init
    /\ method \in {"Get", "Post"}
    /\ KeepLog
    /\ PlainSettings

StepNext ==
    \/ CallStart
    \/ \E l \in Lanes : LaneCheck(l)
    \/ \E l \in Lanes : LaneStart(l)
    \/ \E l \in Lanes : \E o \in Outcomes : TransportReturnUnlogged(l, o)
    \/ \E l \in Lanes : \E o \in Outcomes : LaneFails(l, o)
    \/ \E l \in Lanes : LogLock(l)
    \/ \E l \in Lanes : LogWrite(l)
    \/ \E l \in Lanes : LaneAfterLog(l)
    \/ \E l \in Lanes : LaneSelect(l)
    \/ \E l \in Lanes : TimerFire(l)
    \/ \E l \in Lanes : ListenerRecv(l)
    \/ CallReturn
    \/ WatcherClose
    \/ ListenerExit

StepSpec == StepInit /\ [][StepNext]_vars

\* --------------------------------------------- a backoff function by itself
BackoffInit ==
    /\ CallInit
    /\ FromNew
    /\ method = "Get"
    /\ \/ bFn \in Strategies /\ bArg \in 1 .. MaxBackoffArg
       \/ bFn \in JitterStrategies /\ bArg \in 1 .. MaxJitterArg
    /\ bOut = 0

\* the function is called with the argument
BackoffApply ==
    /\ bFn \in Strategies
    /\ bOut = 0
    /\ bOut' = BackoffCall(bFn, bArg)
    /\ UNCHANGED <<cfgVars, reqVars, hc, callsAtSignal,
                   callerVars, laneVars, listenerVars, groupVars, cancelled,
                   ErrLog, body, bodySrc, hookCalls, muVars, bFn, bArg, histVars>>

\* a jittered function is called with the argument and draws its number
JitterApply ==
    /\ bFn \in JitterStrategies
    /\ bOut = 0
    /\ \E r \in Draws(JitterArg(bFn, bArg)) : bOut' = JitterCall(bFn, bArg, r)
    /\ UNCHANGED <<cfgVars, reqVars, hc, callsAtSignal,
                   callerVars, laneVars, listenerVars, groupVars, cancelled,
                   ErrLog, body, bodySrc, hookCalls, muVars, bFn, bArg, histVars>>

BackoffSpec == BackoffInit /\ [][BackoffApply \/ JitterApply]_vars

\* ----------------------------------------------------- type correctness
TypeOK ==
    /\ callerPc \in {"idle", "waiting", "done"}
    /\ \A l \in Lanes :
          lanePc[l] \in {"unused", "top", "go", "do", "log", "locked", "logged", "select",
                         "blocked", "send", "done"}
    /\ listenerPc \in {"off", "recv", "deliver", "exited"}
    /\ wg >= 0
    /\ totalSentRequests >= 0
    /\ finishCloses <= 1
    /\ \A l \in Lanes : attempt[l] <= AttemptLimit

\* ================================================================ claims

\* an outcome the claims call retryable: a transport error, a status of
\* 500 or more, or a 429 while RetryOnHTTP429 is set
RetryableOutcome(o) ==
    \/ o = TransportErr
    \/ o >= 500
    \/ (o = 429 /\ RetryOnHTTP429)

\* every transport call so far had a retryable outcome
AllRetryable == \A o \in seen : RetryableOutcome(o)

\* the call gets past the copy of its body and the method check, to the
\* start of its lanes
StartsLanes == method \in KnownMethods /\ reqBody # "unreadable"

\* the call has returned and a Wait() issued now returns
Quiescent == callerPc = "done" /\ wg = 0

\* the records of lane l in the log
EntriesOf(l) == {k \in 1 .. Len(ErrLog) : ErrLog[k].Request = l}

\* C1: a call that went through the fan-in returns the first result any
\* lane handed to the listener, response and error, and no later one
C1_FirstResultReturned ==
    (callerPc = "done" /\ StartsLanes) =>
        /\ firstHanded.lane \in Lanes
        /\ ret.resp = firstHanded.res.resp
        /\ ret.err = firstHanded.res.err

\* C1 witness: lane 1 handed its result first, lane 0 handed one later, and
\* the caller holds lane 1's response
C1_Witness ==
    /\ callerPc = "done"
    /\ firstHanded.lane = 1
    /\ sends[0] = 1
    /\ sends[1] = 1
    /\ ret.resp.lane = 1

C7_LaneCount ==
    (callerPc # "idle" /\ StartsLanes) =>
        Cardinality(Started) = (IF verb # "GET" THEN 1 ELSE Concurrency)

\* C7 witness: a non-GET call on a client with the largest Concurrency
\* running one lane
C7_Witness ==
    /\ callerPc # "idle"
    /\ verb # "GET"
    /\ Concurrency = MaxConcurrency
    /\ Cardinality(Started) = 1

\* a status the claims call a success: below 500, and not 429 unless
\* RetryOnHTTP429 is off
SuccessStatus(st) ==
    /\ st \in Statuses
    /\ st < 500
    /\ (st # 429 \/ ~RetryOnHTTP429)

\* the log has a record of attempt i of lane l
Logged(l, i) == \E k \in 1 .. Len(ErrLog) : ErrLog[k].Request = l /\ ErrLog[k].Attempt = i

\* C4: a lane whose attempt came back with a success status is sending that
\* response with a nil error, has not called Client.log for the attempt (no
\* record, no hook call), has armed
\* no timer and has made no further transport call; and a call that saw
\* only successes returns a response with a nil error and an empty log
C4_SuccessEndsLane ==
    /\ \A l \in Lanes :
          (lastResp[l] # NilResp /\ SuccessStatus(lastResp[l].status)) =>
              /\ lanePc[l] = "send"
              /\ laneRes[l].resp = lastResp[l]
              /\ laneRes[l].err = "nil"
              /\ lastResp[l].attempt = attempt[l]
              /\ transportCalls[l] = attempt[l]
              /\ body[l][attempt[l]] = "open"
              /\ ~Logged(l, attempt[l])
              /\ logCalls[l] = attempt[l] - 1
              /\ timer[l] = "none"
    /\ (callerPc = "done" /\ seen # {} /\ \A o \in seen : SuccessStatus(o)) =>
          /\ ret.resp # NilResp
          /\ ret.err = "nil"
          /\ ErrLog = <<>>
          /\ \A l \in Lanes : transportCalls[l] <= 1 /\ logCalls[l] = 0

\* C4 witness: a call with KeepLog whose only outcome was a 400 has
\* returned that response
C4_Witness ==
    /\ callerPc = "done"
    /\ KeepLog
    /\ seen = {StatusBadRequest}
    /\ ret.resp.status = StatusBadRequest
    /\ ret.err = "nil"

\* C5: without RetryOnHTTP429 a lane that received a 429 sends it with a
\* nil error, and a call that saw only 429s returns a 429 of a first
\* attempt with nothing logged; with RetryOnHTTP429 a lane that received a
\* 429 has logged it and sends only at its last attempt or when cancelled,
\* and an uncancelled call that saw only 429s returns the 429 of attempt
\* max(1, MaxRetries) of a lane that logged all its attempts
C5_Status429 ==
    /\ \A l \in Lanes :
          (lastResp[l].status = 429 /\ ~RetryOnHTTP429) =>
              /\ lanePc[l] = "send"
              /\ laneRes[l].resp = lastResp[l]
              /\ laneRes[l].err = "nil"
    /\ (callerPc = "done" /\ seen = {429} /\ ~RetryOnHTTP429) =>
          /\ ret.resp.status = 429
          /\ ret.resp.attempt = 1
          /\ ret.err = "nil"
          /\ ErrLog = <<>>
          /\ \A l \in Lanes : transportCalls[l] <= 1 /\ logCalls[l] = 0
    /\ \A l \in Lanes :
          (lastResp[l].status = 429 /\ RetryOnHTTP429) =>
              /\ KeepLog => Logged(l, lastResp[l].attempt)
              /\ logCalls[l] >= lastResp[l].attempt
              /\ lanePc[l] = "send" => (attempt[l] = AttemptLimit \/ cancelled)
    /\ (callerPc = "done" /\ seen = {429} /\ RetryOnHTTP429 /\ ~cancelled) =>
          /\ ret.resp.status = 429
          /\ ret.resp.attempt = AttemptLimit
          /\ ret.err = "nil"
          /\ transportCalls[firstHanded.lane] = AttemptLimit
          /\ KeepLog => Cardinality(EntriesOf(firstHanded.lane)) = AttemptLimit

\* C5 witness: with RetryOnHTTP429 and three attempts allowed, a call that
\* saw only 429s has returned after logging three of them
C5_Witness ==
    /\ callerPc = "done"
    /\ RetryOnHTTP429 /\ KeepLog /\ ~cancelled
    /\ seen = {429}
    /\ MaxRetries = 3
    /\ Len(ErrLog) = 3
    /\ ret.resp.attempt = 3

\* C6: a lane that is sending after its last allowed attempt failed sends
\* that attempt's response and error as they came, the body still open,
\* with the failure logged, no timer armed and the backoff function called
\* only for the attempts before
C6_LastAttemptDelivered ==
    \A l \in Lanes :
        (/\ lanePc[l] = "send"
         /\ attempt[l] = AttemptLimit
         /\ (lastResp[l] = NilResp \/ ~SuccessStatus(lastResp[l].status))) =>
            /\ laneRes[l].resp = lastResp[l]
            /\ laneRes[l].err = (IF lastResp[l] = NilResp THEN "transportErr" ELSE "nil")
            /\ lastResp[l] # NilResp =>
                  /\ lastResp[l].attempt = AttemptLimit
                  /\ body[l][AttemptLimit] = "open"
            /\ KeepLog => Logged(l, AttemptLimit)
            /\ logCalls[l] = AttemptLimit
            /\ timer[l] = "none"
            /\ backoffArgs[l] = [k \in 1 .. (AttemptLimit - 1) |-> k]

\* C6 witness: the context is cancelled, and a lane sends the 500 of its
\* second and last attempt with a nil error
C6_Witness ==
    /\ MaxRetries = 2
    /\ cancelled
    /\ lanePc[0] = "send"
    /\ attempt[0] = 2
    /\ lastResp[0].status = StatusInternalServerError
    /\ laneRes[0].err = "nil"

\* C8: with one lane, once the context was cancelled while the lane was
\* blocked in its backoff wait, the lane is sending the context's error or
\* has sent it, no timer is awaited, no transport call follows the last
\* backoff, and the call returns the context's error
C8_CancelDuringWait ==
    (Cardinality(Started) = 1 /\ cancelPoint[0] = "wait") =>
        /\ lanePc[0] \in {"send", "done"}
        /\ timer[0] = "none"
        /\ transportCalls[0] = Len(backoffArgs[0])
        /\ lanePc[0] = "send" => laneRes[0].err = "Canceled"
        /\ gotFirstResult => firstHanded.res.err = "Canceled"
        /\ callerPc = "done" => ret.err = "Canceled"

\* C8 witness: the call has returned the context's error after a
\* cancellation during the wait
C8_Witness ==
    /\ Cardinality(Started) = 1
    /\ cancelPoint[0] = "wait"
    /\ callerPc = "done"
    /\ ret.err = "Canceled"

\* C9: with one lane and MaxRetries > 1, when the context was cancelled
\* before the first transport call had returned and that call failed, the
\* lane logs the failure, calls no backoff, makes no second transport call
\* and sends the context's error, which the call returns
C9_CancelBeforeFirstFailure ==
    (/\ Cardinality(Started) = 1 /\ MaxRetries > 1
     /\ cancelPoint[0] \in {"unstarted", "first"}
     /\ seen # {} /\ AllRetryable) =>
        /\ lanePc[0] \in {"send", "done"}
        /\ transportCalls[0] = 1
        /\ logCalls[0] = 1
        /\ backoffArgs[0] = <<>>
        /\ timer[0] = "none"
        /\ KeepLog => (Len(ErrLog) = 1 /\ ErrLog[1].Attempt = 1)
        /\ lanePc[0] = "send" => laneRes[0].err = "Canceled"
        /\ callerPc = "done" => ret.err = "Canceled"

\* C9 witness: three attempts allowed, the context cancelled before the
\* first one ended, and the call back with one record in the log
C9_Witness ==
    /\ Cardinality(Started) = 1 /\ MaxRetries = 3 /\ KeepLog
    /\ cancelPoint[0] = "first"
    /\ AllRetryable
    /\ callerPc = "done"
    /\ ret.err = "Canceled"
    /\ Len(ErrLog) = 1

\* every task of the call has ended
AllEnded ==
    /\ callerPc = "done"
    /\ \A l \in Lanes : lanePc[l] \in {"unused", "done"}
    /\ listenerPc \in {"off", "exited"}

\* C10: once the call is over, every response the transport returned that
\* is not the one the caller got has been drained and then closed
C10_AllOthersDrained ==
    AllEnded =>
        \A l \in Lanes : \A i \in Attempts :
            (body[l][i] # "none" /\ ~(ret.resp.lane = l /\ ret.resp.attempt = i)) =>
                body[l][i] = "drained"

\* the records of lane l in the log, in the order of the log
RecordsOf(l) == SelectSeq(ErrLog, LAMBDA e : e.Request = l)

\* C16: the records one lane wrote are, in the order of the log, those of
\* its attempts 1, 2, ..., k: the k-th carries Attempt k
C16_LaneRecordsInOrder ==
    \A l \in Lanes :
        /\ \A k \in 1 .. Len(RecordsOf(l)) : RecordsOf(l)[k].Attempt = k
        /\ KeepLog => Len(RecordsOf(l)) = logCalls[l]

\* C16 witness: the records of two lanes interleave in the log, lane 1
\* first, and each lane's are in order
C16_Witness ==
    /\ Len(ErrLog) = 4
    /\ ErrLog[1].Request = 1 /\ ErrLog[1].Attempt = 1
    /\ ErrLog[2].Request = 0 /\ ErrLog[2].Attempt = 1
    /\ ErrLog[3].Request = 1 /\ ErrLog[3].Attempt = 2
    /\ ErrLog[4].Request = 0 /\ ErrLog[4].Attempt = 2

\* C12 as stated: when Wait() returns after the call was issued, every lane
\* and the drain listener of the call have completed
C12_WaitCoversListener ==
    (callerPc # "idle" /\ Wait) =>
        /\ \A l \in Lanes : lanePc[l] \in {"unused", "done"}
        /\ listenerPc \in {"off", "exited"}

\* C12 amended: when Wait() returns after the call was issued, every lane
\* of the call has completed (the listener and the watcher need not have)
C12_WaitCoversLanes ==
    (callerPc # "idle" /\ Wait) =>
        \A l \in Lanes : lanePc[l] \in {"unused", "done"}

\* C12 witness: both lanes are done and Wait() returns while the listener
\* still holds the result for a caller that has not taken it
C12_Witness ==
    /\ Wait
    /\ \A l \in Lanes : lanePc[l] = "done"
    /\ listenerPc = "deliver"
    /\ callerPc = "waiting"

\* C13: no response body is closed twice, and the response returned to the
\* caller has not been closed by a lane or by the listener
C13_SingleOwner ==
    /\ \A l \in Lanes : \A i \in Attempts : body[l][i] # "reclosed"
    /\ (callerPc = "done" /\ ret.resp # NilResp) =>
          body[ret.resp.lane][ret.resp.attempt] = "open"

\* C14: a call whose request body cannot be read has returned nil and
\* ErrReadingRequestBody with no lane and no listener started, no transport
\* call, no call of Client.log, nothing in the log, no hook called and
\* nothing left for the watcher to wait for; and no other call returns
\* that error
C14_BodyReadFails ==
    /\ (callerPc # "idle" /\ reqBody = "unreadable") =>
          /\ callerPc = "done"
          /\ ret = [resp |-> NilResp, err |-> "ErrReadingRequestBody"]
          /\ \A l \in Lanes : /\ lanePc[l] = "unused"
                               /\ transportCalls[l] = 0
                               /\ logCalls[l] = 0
          /\ ErrLog = <<>>
          /\ hookCalls = <<>>
          /\ listenerPc = "off"
          /\ totalSentRequests = 0
          /\ wg = 0
    /\ ret.err = "ErrReadingRequestBody" => reqBody = "unreadable"

\* C14 witness: a Post with both hooks set and an unreadable body has
\* returned the error, and the watcher has ended
C14_Witness ==
    /\ method = "Post" /\ reqBody = "unreadable"
    /\ LogHook /\ ContextLogHook /\ ~KeepLog
    /\ callerPc = "done"
    /\ ret.err = "ErrReadingRequestBody"
    /\ allRequestsBackCh = "closed"

\* the calls of Client.log made so far by the lanes 0 .. n
RECURSIVE LogCallsUpTo(_)
LogCallsUpTo(n) == IF n < 0 THEN 0 ELSE logCalls[n] + LogCallsUpTo(n - 1)
TotalLogCalls == LogCallsUpTo(MaxConcurrency - 1)

\* the records delivered so far, whichever way
Delivered == ErrLog \o [k \in 1 .. Len(hookCalls) |-> hookCalls[k].e]

\* C15: every call of Client.log has made exactly one delivery by the
\* first of these that applies: KeepLog appends to ErrLog and calls no
\* hook; ContextLogHook is called with the record and the context of the
\* lane's request, and LogHook is not; LogHook is called with the record;
\* otherwise the record is dropped. No attempt is delivered twice, and an
\* uncancelled single-lane call with a hook in effect whose attempts all
\* failed has called the hook max(1, MaxRetries) times
C15_LogDelivery ==
    /\ KeepLog => (Len(ErrLog) = TotalLogCalls /\ hookCalls = <<>>)
    /\ ~KeepLog => ErrLog = <<>>
    /\ (~KeepLog /\ ContextLogHook) =>
          /\ Len(hookCalls) = TotalLogCalls
          /\ \A k \in 1 .. Len(hookCalls) :
                /\ hookCalls[k].hook = "ContextLogHook"
                /\ hookCalls[k].ctx = (IF method = "Do" THEN "request" ELSE "background")
    /\ (~KeepLog /\ ~ContextLogHook /\ LogHook) =>
          /\ Len(hookCalls) = TotalLogCalls
          /\ \A k \in 1 .. Len(hookCalls) : hookCalls[k].hook = "LogHook"
    /\ (~KeepLog /\ ~ContextLogHook /\ ~LogHook) => hookCalls = <<>>
    /\ \A j, k \in 1 .. Len(Delivered) :
          (Delivered[j].Request = Delivered[k].Request
             /\ Delivered[j].Attempt = Delivered[k].Attempt) => j = k
    /\ (/\ ~KeepLog /\ (ContextLogHook \/ LogHook) /\ ~cancelled
        /\ Cardinality(Started) = 1 /\ AllRetryable /\ Quiescent) =>
          /\ Len(hookCalls) = (IF MaxRetries >= 1 THEN MaxRetries ELSE 1)
          /\ \A k \in 1 .. Len(hookCalls) : hookCalls[k].e.Attempt = k

\* C15 witness: both hooks set and no KeepLog, three attempts allowed and
\* failed: ContextLogHook got the three records with the request's context
C15_Witness ==
    /\ ~KeepLog /\ ContextLogHook /\ LogHook
    /\ method = "Do" /\ MaxRetries = 3
    /\ AllRetryable /\ ~cancelled /\ Quiescent
    /\ Len(hookCalls) = 3
    /\ hookCalls[3] = [hook |-> "ContextLogHook", ctx |-> "request",
                       e |-> [Request |-> 0, Retry |-> 4, Attempt |-> 3,
                              Err |-> "transportErr"]]

\* C18: an uncancelled call on a client with the settings of New() that
\* reached the endpoint and whose attempts all failed ran one lane, made 3
\* transport calls, was given a wait of 1 second by DefaultBackoff after
\* the first and after the second and none after the third, retried no 429
\* and kept no log; the same client with KeepLog set kept the three records
C18_DefaultClient ==
    /\ FromNew => (~RetryOnHTTP429 /\ ErrLog = <<>> /\ hookCalls = <<>>)
    /\ (/\ Concurrency = 1 /\ MaxRetries = 3 /\ Backoff = "DefaultBackoff"
        /\ ~RetryOnHTTP429 /\ ~LogHook /\ ~ContextLogHook
        /\ StartsLanes /\ NewRequestErr(method, url) = "nil"
        /\ ~cancelled /\ AllRetryable /\ Quiescent) =>
          /\ Cardinality(Started) = 1
          /\ transportCalls[0] = 3
          /\ logCalls[0] = 3
          /\ waits[0] = <<1000, 1000>>
          /\ backoffArgs[0] = <<1, 2>>
          /\ timer[0] = "none"
          /\ Len(ErrLog) = (IF KeepLog THEN 3 ELSE 0)

\* C18 witness: a Get on the client of New() has returned after three
\* failed attempts and two waits of a second
C18_Witness ==
    /\ FromNew /\ method = "Get" /\ reqBody = "none"
    /\ ~cancelled /\ AllRetryable /\ Quiescent
    /\ transportCalls[0] = 3
    /\ waits[0] = <<1000, 1000>>
    /\ ErrLog = <<>>

\* the wait the claims expect after failed attempt k under each strategy
ExpectedWait(b, k) ==
    CASE b = "DefaultBackoff" -> 1000
      [] b = "ExponentialBackoff" -> (2 ^ k) * 1000
      [] b = "LinearBackoff" -> k * 1000

\* C19: the backoff function has been called once after each failed
\* attempt that is followed by a wait, with that attempt's number: the
\* k-th call had argument k and the lane was given Backoff(k) to wait; a
\* lane at its attempt i has had i - 1 waits, each over before the attempt
\* that followed; with ExponentialBackoff the waits are 2, 4, 8, ... seconds
C19_BackoffBetweenAttempts ==
    \A l \in Lanes :
        /\ Len(waits[l]) = Len(backoffArgs[l])
        /\ \A k \in 1 .. Len(waits[l]) :
              /\ backoffArgs[l][k] = k
              /\ waits[l][k] = ExpectedWait(Backoff, k)
        /\ lanePc[l] \in {"top", "do"} =>
              (Len(waits[l]) = attempt[l] - 1 /\ timer[l] = "none")
        /\ lanePc[l] \in {"select", "blocked"} =>
              (Len(waits[l]) = attempt[l] /\ timer[l] # "none")
        /\ transportCalls[l] <= Len(waits[l]) + 1

\* C19 witness: ExponentialBackoff and four attempts, all failed: the waits
\* after attempts 1, 2 and 3 were 2, 4 and 8 seconds
C19_Witness ==
    /\ Backoff = "ExponentialBackoff" /\ MaxRetries = 4
    /\ ~cancelled /\ AllRetryable /\ Quiescent
    /\ transportCalls[0] = 4
    /\ waits[0] = <<2000, 4000, 8000>>

\* C20 as stated: ExponentialBackoff(n) is 2^(n-1) seconds
C20_TwoToTheNMinusOne ==
    (bFn = "ExponentialBackoff" /\ bOut # 0) => bOut = (2 ^ (bArg - 1)) * 1000

\* C20 amended: ExponentialBackoff(n) is 2^n seconds for n = 1, 2, ...,
\* MaxBackoffArg
C20_TwoToTheN ==
    (bFn = "ExponentialBackoff" /\ bOut # 0) => bOut = (2 ^ bArg) * 1000

\* C20 witness: ExponentialBackoff(3) has returned 8 seconds
C20_Witness ==
    /\ bFn = "ExponentialBackoff"
    /\ bArg = 3
    /\ bOut = 8000

\* a step leaves the log as it is or adds one record at its end
AppendOnly ==
    \/ ErrLog' = ErrLog
    \/ /\ Len(ErrLog') = Len(ErrLog) + 1
       /\ SubSeq(ErrLog', 1, Len(ErrLog)) = ErrLog

\* the mutex is held by one task at most; a lane between its read and its
\* write of the log and a reader of the log hold it; the log has one record
\* for each append that returned, those of a lane being its attempts 1, 2,
\* ... in order; a reader saw no more records than the log has
LogGuarded ==
    /\ Cardinality(mu) <= 1
    /\ \A l \in Lanes : lanePc[l] = "locked" => LaneHolder(l) \in mu
    /\ readerPc = "reading" => ReaderHolder \in mu
    /\ Len(ErrLog) = TotalLogCalls
    /\ \A l \in Lanes :
          /\ Len(RecordsOf(l)) = logCalls[l]
          /\ \A k \in 1 .. Len(RecordsOf(l)) : RecordsOf(l)[k].Attempt = k
    /\ LogErrCount(readerSeen) <= LogErrCount(ErrLog)

\* C17: every append and every read of the log is made by the one holder
\* of the mutex, no record is lost when lanes log concurrently (the log is
\* as long as the number of appends made), and no step changes or removes
\* a record that is in the log
C17_LogRaceFree == []LogGuarded /\ [][AppendOnly]_vars

\* C17 witness: lane 0 holds the mutex for its append while lane 1 waits
\* for it with a failure to log, lane 1's first record is in the log, and
\* a reader has read the log when it held one record
C17_Witness ==
    /\ lanePc[0] = "locked"
    /\ lanePc[1] = "log"
    /\ mu = {LaneHolder(0)}
    /\ Len(ErrLog) = 2
    /\ ErrLog[1].Request = 1
    /\ Len(readerSeen) = 1

\* the response bodies that are open
OpenBodies == {p \in Lanes \X Attempts : body[p[1]][p[2]] = "open"}

\* a GET call with at least one lane whose requests were built and whose
\* transport calls have all returned a success so far
C11_Case ==
    /\ verb = "GET"
    /\ method \in KnownMethods
    /\ Concurrency >= 1
    /\ NewRequestErr(method, url) = "nil"
    /\ \A o \in seen : SuccessStatus(o)

\* the caller, every lane, the listener and the watcher have ended, the
\* one open body is that of the response returned, and every other
\* response received has been read to its end and closed
C11_Clean ==
    /\ AllEnded
    /\ listenerPc = "exited"
    /\ allRequestsBackCh = "closed"
    /\ totalSentRequests = 0
    /\ wg = 0
    /\ ret.resp # NilResp
    /\ ret.err = "nil"
    /\ OpenBodies = {<<ret.resp.lane, ret.resp.attempt>>}
    /\ \A l \in Lanes : \A i \in Attempts : body[l][i] \in {"none", "open", "drained"}

C21_JitterWithinThird ==
    (bFn \in JitterStrategies /\ bOut # 0) =>
        LET base == IF bFn = "LinearJitterBackoff"
                    THEN LinearBackoff(bArg) ELSE ExponentialBackoff(bArg)
        IN  /\ base - (base \div 3) <= bOut
            /\ bOut <= base + (base \div 3)
            /\ bOut >= 1

\* the exponential jitter of attempt 2 drew 0: the lowest value, 4000 - 1333
C21_Witness ==
    /\ bFn = "ExponentialJitterBackoff"
    /\ bArg = 2
    /\ bOut = ExponentialBackoff(2) - (ExponentialBackoff(2) \div 3)

\* C22: for a default client (one lane, three attempts) whose every attempt
\* fails, the three lines rendered by LogString are labelled request-0 with
\* retry-0, retry-1 and retry-2, in that order
C22_LabelsFromZero ==
    (/\ Concurrency = DefaultClient.Concurrency
     /\ MaxRetries = DefaultClient.MaxRetries
     /\ Backoff = DefaultClient.Backoff
     /\ ~RetryOnHTTP429
     /\ LogErrCount(readerSeen) = 3)
    => readerSeen = << [request |-> 0, retry |-> 0], [request |-> 0, retry |-> 1],
                       [request |-> 0, retry |-> 2] >>

\* what LogString renders there: retry-2, retry-3 and retry-4
C22_LabelsSeen ==
    /\ Concurrency = DefaultClient.Concurrency
    /\ MaxRetries = DefaultClient.MaxRetries
    /\ readerSeen = << [request |-> 0, retry |-> 2], [request |-> 0, retry |-> 3],
                       [request |-> 0, retry |-> 4] >>

\* the step of lane l from the head of its loop while the completion signal
\* is not raised and the context is already cancelled
C23_BeginsWhileCancelled(l) ==
    /\ cancelled
    /\ finishCh = "open"
    /\ lanePc[l] = "top"
    /\ lanePc'[l] # "top"

\* C23 as stated: a lane checks the cancellation before starting each new
\* attempt, the first included; with the context already cancelled it ends
\* with the cancellation error and does not invoke the transport
C23_ChecksBeforeAttempt ==
    [][\A l \in Lanes :
          C23_BeginsWhileCancelled(l) =>
              /\ transportCalls'[l] = transportCalls[l]
              /\ lanePc'[l] = "send"
              /\ laneRes'[l].err = "Canceled"]_vars

\* C23 (amended): the head of the loop checks the completion signal only; a
\* lane about to begin an attempt with the context already cancelled still
\* invokes the transport. The cancellation error is sent only after a
\* logged failure of an attempt that is not the last one (right after the
\* failure, or from the backoff wait that follows it)
C23_ChecksAfterFailure ==
    /\ [](\A l \in Lanes :
             (lanePc[l] = "send" /\ laneRes[l].err = "Canceled") =>
                 /\ transportCalls[l] = attempt[l]
                 /\ logCalls[l] = attempt[l]
                 /\ attempt[l] < AttemptLimit)
    /\ [][\A l \in Lanes :
             C23_BeginsWhileCancelled(l) =>
                 /\ lanePc'[l] = "do"
                 /\ transportCalls'[l] = transportCalls[l] + 1]_vars

\* the context was cancelled before the call started its lane, and the lane
\* is in its first transport call
C23_Witness ==
    /\ cancelled
    /\ cancelPoint[0] = "unstarted"
    /\ lanePc[0] = "do"
    /\ transportCalls[0] = 1

\* C24: finishCh is closed exactly once, never twice, at the step in which
\* the listener receives the first lane result and before that result is
\* handed to the caller; once closed it stays closed, and it is never closed
\* in a call that produced no lane result
C24_ClosedOnceAtFirstResult ==
    /\ [](/\ finishCloses <= 1
          /\ (finishCh = "closed") <=> (finishCloses = 1)
          /\ (finishCh = "closed") <=> (\E l \in Lanes : sends[l] > 0)
          /\ listenerPc = "deliver" => finishCh = "closed"
          /\ (callerPc = "done" /\ StartsLanes) => finishCh = "closed"
          /\ (callerPc = "done" /\ ~StartsLanes) => finishCh = "open")
    /\ [][/\ finishCh = "closed" => finishCh' = "closed"
          /\ finishCh' # finishCh =>
                /\ \A k \in Lanes : sends[k] = 0
                /\ \E l \in Lanes : sends'[l] = 1
                /\ listenerPc' = "deliver"
                /\ callerPc' = "waiting"]_vars

\* two lanes have sent their results, the call has returned, and finishCh
\* was closed once
C24_Witness ==
    /\ \A l \in Lanes : sends[l] = 1
    /\ callerPc = "done"
    /\ finishCh = "closed"
    /\ finishCloses = 1

\* C25: a lane that reaches the top of its loop after finishCh was closed
\* returns without invoking the transport, without logging and without
\* sending a result; a lane inside a transport call when finishCh is closed
\* is not interrupted and leaves the call only by its return. Hence after
\* the signal each lane begins at most one more transport call
C25_NoRetryAfterSignal ==
    /\ [](\A l \in Lanes :
             /\ finishCh = "open" => callsAtSignal[l] = 0
             /\ finishCh = "closed" =>
                   /\ transportCalls[l] <= callsAtSignal[l] + 1
                   /\ transportCalls[l] > callsAtSignal[l] => lanePc[l] # "go"
             /\ (lanePc[l] = "done" /\ sends[l] = 0) => finishCh = "closed")
    /\ [][\A l \in Lanes :
             /\ (finishCh = "closed" /\ lanePc[l] = "top" /\ lanePc'[l] # "top") =>
                   /\ lanePc'[l] = "done"
                   /\ transportCalls'[l] = transportCalls[l]
                   /\ logCalls'[l] = logCalls[l]
                   /\ ErrLog' = ErrLog
                   /\ sends'[l] = sends[l]
                   /\ laneRes'[l] = laneRes[l]
             /\ (lanePc[l] = "do" /\ lanePc'[l] # "do") =>
                   /\ lanePc'[l] \in {"send", "log"}
                   /\ lastResp'[l] # NilResp \/ TransportErr \in seen'
             /\ (lanePc[l] = "do" /\ finishCh' # finishCh) => lanePc'[l] = "do"]_vars

\* lane 1 had passed the check when lane 0's result closed finishCh: it
\* began one more transport call, which failed and was logged, and at its
\* next loop head it returned without sending
C25_Witness ==
    /\ finishCh = "closed"
    /\ sends[0] = 1
    /\ callsAtSignal[1] = 0
    /\ transportCalls[1] = 1
    /\ logCalls[1] = 1
    /\ lanePc[1] = "done"
    /\ sends[1] = 0

\* every lane of the call has returned
LanesFinished == \A l \in Lanes : lanePc[l] \in {"unused", "done"}

\* C26: the listener exits only after every lane of the call has finished
\* and the call has returned to its caller; it never exits while a lane can
\* still send a result, and once all of them are done it does exit
C26_ListenerOutlivesLanes ==
    /\ [](/\ listenerPc = "exited" => (LanesFinished /\ callerPc = "done")
          /\ allRequestsBackCh = "closed" => (LanesFinished /\ callerPc = "done"))
    /\ [][listenerPc = "exited" => listenerPc' = "exited"]_vars
    /\ ((LanesFinished /\ callerPc = "done" /\ listenerPc # "off")
           ~> (listenerPc = "exited"))

\* two lanes have both sent, the call is back and the listener has exited
C26_Witness ==
    /\ \A l \in Lanes : lanePc[l] = "done" /\ sends[l] = 1
    /\ callerPc = "done"
    /\ listenerPc = "exited"

\* the original body of a call that has one was read to its end and closed,
\* once, by the time the call has passed the copy, so before any lane
C27_SourceClosedOnce ==
    (callerPc # "idle" /\ reqBody # "none") => bodySrc = "closed"

\* the request of every lane of a call with a body has a reader over the
\* snapshot that no transport call has read when an attempt begins, and no
\* transport call reads a reader a second time; GetBody is reset too
C27_FreshReaderEachAttempt ==
    \A l \in Lanes :
        (lanePc[l] # "unused" /\ reqBody # "none") =>
            /\ reqReader[l].GetBody = "snapshot"
            /\ reqReader[l].Body \in {"fresh", "consumed"}
            /\ lanePc[l] \in {"top", "go"} => reqReader[l].Body = "fresh"
            /\ lanePc[l] = "do" => reqReader[l].Body = "consumed"

\* C27: the original request body is read and closed exactly once per call,
\* before any lane starts; no attempt is given the original stream, and
\* every attempt of a request with a body is given a fresh, unread reader
\* over the snapshot, GetBody being reset as well
C27_BodyOnceAndFresh == C27_SourceClosedOnce /\ C27_FreshReaderEachAttempt

\* a Post whose body is in its third attempt, each with a fresh reader
C27_ThirdAttempt ==
    /\ method = "Post"
    /\ lanePc[0] = "do"
    /\ transportCalls[0] = 3
    /\ reqReader[0].Body = "consumed"

\* C28: no request object is in use by two transport calls at the same
\* time: when more than one lane runs each lane has a request object of its
\* own (a clone of the caller's request for Do, a newly built request
\* otherwise; none when http.NewRequest failed, and then the lane calls no
\* transport) and the caller's request is not passed to the transport; the
\* attempts of one lane are made one after the other
C28_OwnRequestPerLane ==
    /\ \A l, k \in Lanes :
          (l # k /\ lanePc[l] \in {"go", "do"} /\ lanePc[k] \in {"go", "do"}) =>
              reqObj[l] # reqObj[k]
    /\ Cardinality(Started) > 1 =>
          \A l \in Started :
              IF NewRequestErr(method, url) = "nil"
              THEN /\ reqObj[l].kind = IF method = "Do" THEN "clone" ELSE "new"
                   /\ reqObj[l].lane = l
              ELSE reqObj[l] = NoRequest /\ transportCalls[l] = 0
    /\ \A l \in Lanes :
          /\ lanePc[l] = "do" => transportCalls[l] = attempt[l]
          /\ lanePc[l] \in {"top", "go"} => transportCalls[l] = attempt[l] - 1
          /\ transportCalls[l] <= attempt[l]

\* the two lanes of a Do call are both inside a transport call, each with
\* its clone, lane 1 in its second attempt
C28_Witness ==
    /\ method = "Do"
    /\ lanePc[0] = "do" /\ lanePc[1] = "do"
    /\ reqObj[0] = [kind |-> "clone", lane |-> 0]
    /\ reqObj[1] = [kind |-> "clone", lane |-> 1]
    /\ transportCalls[1] = 2

\* the response body of lane l's attempt i, if that attempt got a response
FailedBody(l) ==
    IF lastResp[l] = NilResp THEN "none" ELSE body[lastResp[l].lane][lastResp[l].attempt]

\* where lane l is in the steps that follow the failure of its attempt i
C29_StepsInOrder(l) ==
    LET i == attempt[l]
        hasBody == reqReader[l].Body # "nil"
    IN
    \* the transport has returned a failure: nothing is logged yet
    /\ lanePc[l] \in {"log", "locked"} =>
          /\ logCalls[l] = i - 1
          /\ FailedBody(l) \in {"none", "open"}
          /\ Len(waits[l]) = i - 1
    \* logged: the body is not closed yet and the wait has not begun
    /\ lanePc[l] = "logged" =>
          /\ logCalls[l] = i
          /\ Len(ErrLog) >= 1
          /\ FailedBody(l) \in {"none", "open"}
          /\ Len(waits[l]) = i - 1
          /\ timer[l] = "none"
    \* waiting: logged, the body closed, the request body not reset yet
    /\ lanePc[l] \in {"select", "blocked"} =>
          /\ i < AttemptLimit
          /\ logCalls[l] = i
          /\ FailedBody(l) \in {"none", "closed"}
          /\ Len(waits[l]) = i
          /\ waits[l][i] = BackoffCall(Backoff, i)
          /\ timer[l] \in {"armed", "fired"}
          /\ hasBody => reqReader[l].Body = "consumed"
          /\ transportCalls[l] = i
    \* the next attempt is about to begin: the request body is reset
    /\ (lanePc[l] \in {"top", "go"} /\ i > 1) =>
          /\ logCalls[l] = i - 1
          /\ FailedBody(l) \in {"none", "closed"}
          /\ Len(waits[l]) = i - 1
          /\ timer[l] = "none"
          /\ hasBody => reqReader[l].Body = "fresh"
          /\ transportCalls[l] = i - 1

\* C29: after a retryable failure that is neither the last allowed attempt
\* nor cancelled the lane logs the failure, closes the failed response body
\* if there is one, waits for the backoff, resets the request body from the
\* snapshot and only then starts the next attempt, numbered one more; the
\* failed body is closed before the wait begins
C29_RetrySteps ==
    /\ [](\A l \in Lanes : C29_StepsInOrder(l))
    /\ [][\A l \in Lanes :
             /\ (lanePc[l] \in {"log", "locked"} /\ lanePc'[l] # lanePc[l]) =>
                   lanePc'[l] \in {"locked", "logged"}
             /\ (lanePc[l] = "logged" /\ lanePc'[l] # "logged") =>
                   lanePc'[l] = IF attempt[l] < AttemptLimit THEN "select" ELSE "send"
             /\ (lanePc[l] \in {"select", "blocked"} /\ lanePc'[l] # lanePc[l]) =>
                   \/ lanePc[l] = "select" /\ lanePc'[l] = "blocked"
                      /\ attempt'[l] = attempt[l]
                   \/ lanePc'[l] = "top" /\ attempt'[l] = attempt[l] + 1
             /\ (lanePc[l] # "unused" /\ attempt'[l] # attempt[l]) =>
                   lanePc[l] \in {"select", "blocked"}]_vars

\* a Post whose first attempt got a 500: logged, the body closed, the wait
\* of one second over, the request body reset, attempt 2 about to begin
C29_Witness ==
    /\ method = "Post"
    /\ lanePc[0] = "go"
    /\ attempt[0] = 2
    /\ ErrLog = <<Entry(0, 1, "nil")>>
    /\ body[0][1] = "closed"
    /\ waits[0] = <<DefaultBackoff(1)>>
    /\ reqReader[0] = ResetBody

\* the configuration of the client
Configuration ==
    <<Concurrency, MaxRetries, KeepLog, RetryOnHTTP429, Backoff, LogHook, ContextLogHook>>

\* C30 as stated: apart from appends to ErrLog every field of the Client
\* has the same value after the call as before it
C30_OnlyLogChanges ==
    /\ [][/\ Configuration' = Configuration
          /\ AppendOnly
          /\ UNCHANGED <<hc, SuccessReqNum, SuccessRetryNum>>]_vars
    /\ [](AllEnded => wg = 0)

\* C30 (amended): no step of a call writes the configuration, and ErrLog
\* changes by appends only; the call does write other fields: c.hc is set
\* when the call starts, SuccessReqNum and SuccessRetryNum are set from the
\* winning result when the call returns, and the counter of c.wg is back at
\* its value once every task of the call has ended
C30_ConfigurationReadOnly ==
    /\ [][/\ Configuration' = Configuration
          /\ AppendOnly
          /\ hc' # hc => (callerPc = "idle" /\ callerPc' # "idle" /\ hc' = "set")
          /\ <<SuccessReqNum, SuccessRetryNum>>' # <<SuccessReqNum, SuccessRetryNum>> =>
                /\ callerPc = "waiting" /\ callerPc' = "done"
                /\ SuccessReqNum' = pending.req
                /\ SuccessRetryNum' = pending.retry]_vars
    /\ [](/\ callerPc # "idle" => hc = "set"
          /\ AllEnded => wg = 0
          /\ callerPc # "done" => (SuccessReqNum = 0 /\ SuccessRetryNum = 0))

\* a call with MaxRetries 0 and two lanes has returned lane 1's success:
\* c.hc is set, the winner recorded, the configuration as it was
C30_Witness ==
    /\ MaxRetries = 0
    /\ Concurrency = 2
    /\ callerPc = "done"
    /\ hc = "set"
    /\ SuccessReqNum = 1
    /\ SuccessRetryNum = 1
    /\ AllEnded

\* what C31 says of a call that is not idle: it has returned nil and
\* ErrUnexpectedMethod with no lane and no listener started, no transport
\* call, no record logged, no hook called, and nothing left for the watcher
\* to wait for
C31_Rejected ==
    /\ callerPc = "done"
    /\ ret = [resp |-> NilResp, err |-> "ErrUnexpectedMethod"]
    /\ \A l \in Lanes : /\ lanePc[l] = "unused"
                         /\ transportCalls[l] = 0
                         /\ logCalls[l] = 0
    /\ ErrLog = <<>>
    /\ hookCalls = <<>>
    /\ listenerPc = "off"
    /\ totalSentRequests = 0
    /\ wg = 0

\* C31 as stated: a call whose method is not one of Do, Get, Head, Post,
\* PostForm returns (nil, ErrUnexpectedMethod) at once, with no lane, no
\* transport call, no log entry, no hook call and no task left running
C31_UnknownMethodRejected ==
    (callerPc # "idle" /\ method \notin KnownMethods) => C31_Rejected

\* C31 (amended): the method is checked after the body is copied; a call
\* with an unknown method whose body, if any, can be read is rejected that
\* way, the body read and closed; one whose body cannot be read returns
\* ErrReadingRequestBody; and no call with a known method returns
\* ErrUnexpectedMethod
C31_RejectedAfterBodyCopy ==
    /\ (callerPc # "idle" /\ method \notin KnownMethods /\ reqBody # "unreadable") =>
          /\ C31_Rejected
          /\ reqBody = "ok" => bodySrc = "closed"
    /\ (callerPc # "idle" /\ method \notin KnownMethods /\ reqBody = "unreadable") =>
          ret = [resp |-> NilResp, err |-> "ErrReadingRequestBody"]
    /\ ret.err = "ErrUnexpectedMethod" => method \notin KnownMethods

\* a call with an unknown method and a body has returned, its body closed,
\* and the watcher has ended
C31_Witness ==
    /\ method \notin KnownMethods
    /\ reqBody = "ok"
    /\ callerPc = "done"
    /\ ret.err = "ErrUnexpectedMethod"
    /\ bodySrc = "closed"
    /\ allRequestsBackCh = "closed"

\* C34: a GET call on a client whose Concurrency is not positive that gets
\* as far as the fan-out starts no lane and makes no transport call, never
\* returns to its caller, and its listener and watcher never end: the
\* listener stays in its receive, the group of the watcher stays at one
C34_ZeroLanesHang ==
    (/\ callerPc # "idle" /\ StartsLanes
     /\ verb = "GET" /\ Concurrency <= 0) =>
        /\ Started = {}
        /\ \A l \in Lanes : transportCalls[l] = 0 /\ sends[l] = 0
        /\ callerPc = "waiting"
        /\ ret = NoReturn
        /\ listenerPc = "recv"
        /\ ~gotFirstResult
        /\ finishCh = "open"
        /\ totalSentRequests = 1
        /\ allRequestsBackCh = "open"

\* C34 witness: a Get on a client with Concurrency 0 is waiting for a
\* result with no lane started
C34_Witness ==
    /\ method = "Get"
    /\ Concurrency = 0
    /\ callerPc = "waiting"
    /\ listenerPc = "recv"
    /\ Started = {}

\* C38: a lane whose last allowed attempt failed sends that attempt's own
\* response and error even when the context is cancelled by then; a result
\* carrying the context's error comes only from a lane whose failed attempt
\* was not the last one, seen right after the log of the failure or in the
\* backoff wait that followed it
C38_ExhaustionBeforeCancellation ==
    \A l \in Lanes :
        /\ (/\ lanePc[l] = "send" /\ cancelled
            /\ attempt[l] = AttemptLimit
            /\ (lastResp[l] = NilResp \/ ~SuccessStatus(lastResp[l].status))) =>
               /\ laneRes[l].resp = lastResp[l]
               /\ laneRes[l].err # "Canceled"
               /\ laneRes[l].err = (IF lastResp[l] = NilResp THEN "transportErr" ELSE "nil")
        /\ (laneRes[l] # NoResult /\ laneRes[l].err = "Canceled") =>
               /\ cancelled
               /\ attempt[l] < AttemptLimit
               /\ logCalls[l] = attempt[l]
               /\ lastResp[l] = NilResp \/ ~SuccessStatus(lastResp[l].status)
               /\ Len(backoffArgs[l]) \in {attempt[l] - 1, attempt[l]}

\* C38 witness: the context was cancelled after the first attempt of lane 0
\* had ended, its second and last attempt failed in the transport, and the
\* call has returned that failure
C38_Witness ==
    /\ MaxRetries = 2
    /\ cancelled
    /\ cancelPoint[0] = "other"
    /\ attempt[0] = 2
    /\ lastResp[0] = NilResp
    /\ callerPc = "done"
    /\ ret.err = "transportErr"

\* the transport calls made so far by the lanes 0 .. n
RECURSIVE TransportCallsUpTo(_)
TransportCallsUpTo(n) == IF n < 0 THEN 0 ELSE transportCalls[n] + TransportCallsUpTo(n - 1)

\* max(1, MaxRetries)
C36_PerLane == IF MaxRetries < 1 THEN 1 ELSE MaxRetries

\* C36: a lane never makes more than max(1, MaxRetries) transport calls,
\* a call never more than its lanes times that, and no more records are
\* logged than transport calls were made; a call with one lane whose
\* request was built, whose every attempt failed retryably and whose context
\* was not cancelled has made exactly max(1, MaxRetries) transport calls
\* when it returns, and logged each
C36_AttemptsBounded ==
    /\ \A l \in Lanes : /\ transportCalls[l] <= C36_PerLane
                         /\ logCalls[l] <= transportCalls[l]
    /\ TransportCallsUpTo(MaxConcurrency - 1) <= Cardinality(Started) * C36_PerLane
    /\ TotalLogCalls <= Cardinality(Started) * C36_PerLane
    /\ Len(ErrLog) <= TotalLogCalls
    /\ (/\ Cardinality(Started) = 1 /\ ~cancelled
        /\ NewRequestErr(method, url) = "nil"
        /\ AllRetryable /\ callerPc = "done") =>
           /\ transportCalls[0] = C36_PerLane
           /\ logCalls[0] = C36_PerLane
           /\ KeepLog => Len(ErrLog) = C36_PerLane

\* C36 witness: a Get on a client with one lane, MaxRetries 4 and the
\* exponential backoff has returned after four failed attempts, each of
\* them passed to Client.log
C36_Witness ==
    /\ method = "Get"
    /\ Cardinality(Started) = 1
    /\ MaxRetries = MaxRetriesBound
    /\ Backoff = "ExponentialBackoff"
    /\ ~cancelled
    /\ AllRetryable
    /\ callerPc = "done"
    /\ transportCalls[0] = MaxRetriesBound
    /\ logCalls[0] = MaxRetriesBound

\* C37: the close of finishCh leaves a lane that is in its backoff wait
\* where it is, its timer running; a lane leaves the wait only when its
\* timer fires or the context is cancelled; a lane that comes to the top of
\* its loop with finishCh closed returns with no transport call and no
\* result; and while a lane is in the wait a Wait() does not return,
\* whether or not the call has returned
C37_SignalDoesNotWake ==
    /\ [](\A l \in Lanes : lanePc[l] = "blocked" => (timer[l] = "armed" /\ ~Wait))
    /\ [][\A l \in Lanes :
            /\ (lanePc[l] = "blocked" /\ finishCh = "open" /\ finishCh' = "closed") =>
                  (lanePc'[l] = "blocked" /\ timer'[l] = "armed")
            /\ (lanePc[l] = "blocked" /\ lanePc'[l] # "blocked") =>
                  \/ /\ timer'[l] = "none" /\ lanePc'[l] = "top"
                     /\ cancelled' = cancelled
                  \/ /\ ~cancelled /\ cancelled'
                     /\ lanePc'[l] = "send" /\ laneRes'[l].err = "Canceled"
            /\ (lanePc[l] = "top" /\ finishCh = "closed" /\ lanePc'[l] # "top") =>
                  /\ lanePc'[l] = "done"
                  /\ transportCalls'[l] = transportCalls[l]
                  /\ sends'[l] = sends[l]]_vars

\* C37 witness: the call has returned the result of lane 0 while lane 1 is
\* still in its backoff wait, and a Wait() does not return
C37_Witness ==
    /\ callerPc = "done"
    /\ finishCh = "closed"
    /\ firstHanded.lane = 0
    /\ lanePc[1] = "blocked"
    /\ timer[1] = "armed"
    /\ ~Wait

\* lane l has ended without a result: it found finishCh closed at the top of
\* its loop, every attempt it had made having failed, been logged and not
\* been its last
C32_StoppedBySignal(l) ==
    /\ finishCh = "closed"
    /\ NewRequestErr(method, url) = "nil"
    /\ logCalls[l] = transportCalls[l]
    /\ transportCalls[l] < AttemptLimit

\* C32: a lane sends at most one result, and has ended once it has; a lane
\* ends either by the hand-over of its result or, with no result, at the top
\* of its loop with finishCh closed; a lane comes to its send with the result
\* of a success, of its last failed attempt, of a cancellation or of a
\* request that could not be built
C32_OneResultPerLane ==
    /\ [](\A l \in Lanes :
             /\ sends[l] <= 1
             /\ sends[l] = 1 => lanePc[l] = "done"
             /\ lanePc[l] = "done" => (sends[l] = 1 \/ C32_StoppedBySignal(l))
             /\ lanePc[l] = "send" =>
                   \/ /\ laneRes[l].err = "nil"
                      /\ SuccessStatus(laneRes[l].resp.status)
                   \/ /\ attempt[l] = AttemptLimit
                      /\ laneRes[l].err \in {"nil", "transportErr"}
                   \/ cancelled /\ laneRes[l].err = "Canceled"
                   \/ attempt[l] = 0 /\ laneRes[l].err = "NewRequestErr")
    /\ [][\A l \in Lanes :
            /\ sends'[l] # sends[l] =>
                  (lanePc[l] = "send" /\ lanePc'[l] = "done" /\ sends'[l] = sends[l] + 1)
            /\ (lanePc[l] # "done" /\ lanePc'[l] = "done") =>
                  \/ lanePc[l] = "send" /\ sends'[l] = 1
                  \/ lanePc[l] = "top" /\ finishCh = "closed" /\ sends'[l] = 0
            /\ lanePc[l] = "send" => lanePc'[l] \in {"send", "done"}]_vars

\* C32 witness: lane 0 has handed over its one result and ended, and lane
\* 1, which had made an attempt, found finishCh closed and ended with none
C32_Witness ==
    /\ lanePc[0] = "done" /\ sends[0] = 1
    /\ lanePc[1] = "done" /\ sends[1] = 0
    /\ transportCalls[1] >= 1

\* a step of the call other than the cancellation of its context
C33_Step == <<Next /\ cancelled' = cancelled>>_vars

\* C33: under fair scheduling a call that starts at least one lane returns
\* to its caller, whatever the interleaving, the outcomes of its attempts
\* and the moment of a cancellation; and as long as it has not returned one
\* of its tasks can take a step
C33_CallReturns ==
    /\ (StartsLanes /\ LaneCount(verb, Concurrency) >= 1) ~> (callerPc = "done")
    /\ []((Started # {} /\ callerPc # "done") => ENABLED C33_Step)

\* C33 witness: a Get with two lanes whose URL http.NewRequest rejects has
\* returned the error of the first lane to hand it over
C33_Witness ==
    /\ method = "Get"
    /\ url = "bad"
    /\ Cardinality(Started) = 2
    /\ callerPc = "done"
    /\ ret = [resp |-> NilResp, err |-> "NewRequestErr"]

\* every task of the call that was started has ended: the lanes, the
\* listener and the watcher
C35_TasksEnded ==
    /\ \A l \in Lanes : lanePc[l] \in {"unused", "done"}
    /\ listenerPc \in {"off", "exited"}
    /\ allRequestsBackCh = "closed"

\* C35 as stated: under fair scheduling every call comes to the state where
\* all its lanes, its listener and its watcher have ended
C35_AllTasksEnd == <>[]C35_TasksEnded

\* C35 (amended): under fair scheduling a lane at its send hands its result
\* over and ends, whatever the outcomes in the other lanes; in a call that
\* starts at least one lane every lane, the listener and the watcher end,
\* and stay ended; in a call that starts its listener and no lane the
\* listener and the watcher never end
C35_TasksEndGivenLanes ==
    /\ \A l \in Lanes : (lanePc[l] = "send") ~> (lanePc[l] = "done" /\ sends[l] = 1)
    /\ (StartsLanes /\ LaneCount(verb, Concurrency) >= 1) ~> []C35_TasksEnded
    /\ []((StartsLanes /\ LaneCount(verb, Concurrency) < 1) =>
            (listenerPc # "exited" /\ allRequestsBackCh = "open"))

\* C35 witness: lane 0 handed over a success, lane 1 the error of the
\* cancelled context after it, and every task of the call has ended
C35_Witness ==
    /\ method = "Do"
    /\ cancelled
    /\ firstHanded.lane = 0
    /\ firstHanded.res.err = "nil"
    /\ sends[0] = 1 /\ sends[1] = 1
    /\ transportCalls[1] >= 1
    /\ C35_TasksEnded

\* the result returned is a success
C39_Success == ret.err = "nil" /\ ret.resp # NilResp /\ SuccessStatus(ret.resp.status)

\* C39: SuccessReqNum and SuccessRetryNum are written by the caller's return
\* alone, in a step taken when no other task holds the mutex; before it
\* they are 0; after it they are the lane and the attempt, counted from 1,
\* that produced the response returned when the result is a success, and
\* both 0 when the result is that of a lane's last failed attempt or the
\* error of the cancelled context
C39_WinnerRecorded ==
    /\ [](/\ callerPc # "done" => (SuccessReqNum = 0 /\ SuccessRetryNum = 0)
          /\ (callerPc = "done" /\ C39_Success) =>
                /\ SuccessReqNum = ret.resp.lane
                /\ SuccessRetryNum = ret.resp.attempt
                /\ SuccessRetryNum >= 1
                /\ SuccessReqNum = firstHanded.lane
          /\ (callerPc = "done" /\ ~C39_Success) =>
                /\ ret.err \in {"nil", "transportErr", "Canceled"}
                /\ ret.err = "Canceled" => cancelled
                /\ SuccessReqNum = 0
                /\ SuccessRetryNum = 0)
    /\ [][<<SuccessReqNum, SuccessRetryNum>>' # <<SuccessReqNum, SuccessRetryNum>> \/
              (callerPc = "waiting" /\ callerPc' = "done")
           => (mu = {} /\ callerPc = "waiting" /\ callerPc' = "done")]_vars

\* C39 witness: the call has returned the success of lane 1's second
\* attempt and recorded it
C39_Witness ==
    /\ callerPc = "done"
    /\ C39_Success
    /\ SuccessReqNum = 1
    /\ SuccessRetryNum = 2

====
